---- MODULE Spec2Model ----
(***************************************************************************)
(* Panopticon delegation control plane: the task state machine, the        *)
(* hash-chained audit ledger (in-memory and Merkle variants), the ledger   *)
(* writers (monitoring loop, reputation engine), the HTTP transition       *)
(* handler, the persisted-state replay, privilege attenuation, the         *)
(* reputation engine, trust levels and approval requirements, the circuit  *)
(* breakers, the dispute state machine, the SLO checker, the monitoring    *)
(* loop and its heartbeats, the coordinator, bid evaluation, task          *)
(* decomposition, concurrent transition requests on the task map, and the  *)
(* closing of the channels the two loops select on.                        *)
(***************************************************************************)
EXTENDS Integers, Sequences, FiniteSets, TLC

VARIABLES
    now,              \* Utc::now(), a non-decreasing wall clock
    task,             \* one Task value: [state, created_at, updated_at]
    task_events,      \* the events this task accepted, in order
    task_last,        \* the last Task::apply_event call: event, task before, time, result
    tasks,            \* server AppState.tasks: task id -> Task
    response,         \* the last HTTP response of the server
    ledger,           \* the Ledger behind Arc<dyn Ledger>: implementation and its fields
    next_id,          \* the number of Uuid::new_v4() entry ids drawn so far
    w_pc,             \* each ledger writer's position: "idle" or "hashed"
    w_prev,           \* each writer's previous hash, read by latest_hash()
    persisted,        \* PersistedState.ledger_entries in the state file
    loads,            \* how many times the state file has been loaded (process starts)
    perm,             \* the PermissionSet at the end of a delegation chain
    att_depth,        \* max_delegation_depth of the set the chain started from
    att_ok,           \* successful attenuate calls of the chain so far
    att_failed,       \* whether an attenuate call of the chain has failed
    att_last,         \* the last attenuate call: parent, requested, result
    scores,           \* ReputationEngine.scores: agent id -> AgentReputation
    rep_pc,           \* each update_reputation call's position
    rep_obs,          \* each call's observation
    rep_new,          \* each call's new_score
    rep_prev,         \* each call's previous_hash
    rep_fault,        \* the ledger operation that returned Err to each call
    rep_entry,        \* the id of the ledger entry each call appended (0: none)
    rep_result,       \* what each call returned
    trust_last,       \* the last compute_trust_level call: composite, level
    check_last,       \* the last check_permission call: agent, task, result
    breakers,         \* CircuitBreakerRegistry.breakers: agent id -> CircuitBreaker
    cb_config,        \* the registry's default threshold and cooldown
    cb_pure,          \* the agents whose breaker has seen record_failure calls only
    cb_last,          \* the last registry call: op, agent, breaker before and after
    dispute,          \* one Dispute: state, bond_amount, resolution
    dispute_last,     \* the last call on the dispute: op, argument, dispute before, result
    slo_defs,         \* SloChecker.definitions
    slo_cp,           \* the checkpoint given to SloChecker::check
    slo_last,         \* the last SloChecker::check call: whether made, at, violations
    cp_chan,          \* the checkpoint channel: checkpoints sent and not yet received
    cp_sent,          \* how many checkpoints have been sent into the channel
    evt_chan,         \* the event channel: events sent and not yet received
    evt_rx,           \* the event receiver: "open" or "closed" (dropped)
    shutdown,         \* the watch channel: value, and whether the loop has a change to see
    agent_heartbeats, \* MonitoringLoop.agent_heartbeats: agent id -> timestamp
    mon_config,       \* MonitoringConfig: heartbeat_timeout, heartbeat_check_interval
    mon_pc,           \* the monitoring loop's position
    mon_cp,           \* the checkpoint handle_checkpoint is handling
    mon_queue,        \* the events the running handler has still to send
    hb_next,          \* the next deadline of heartbeat_interval
    mon_log,          \* the steps of handle_checkpoint so far: <<checkpoint number, step>>
    mon_last,         \* the last step of handle_checkpoint, with what it produced
    hb_last,          \* the last check_heartbeats call: time, map, agents to report
    hb_refreshed,     \* reported agents with a newer checkpoint handled since the last tick
    trig_chan,        \* the trigger channel: triggers sent and not yet received
    trig_sent,        \* how many triggers have been sent into the channel
    plan_chan,        \* the plan channel: plans sent and not yet received
    plan_rx,          \* the plan receiver: "open" or "closed" (dropped)
    co_shutdown,      \* the coordinator's watch channel: value, change to see
    co_pc,            \* the coordinator's position
    co_plan,          \* the plan the coordinator is sending
    co_consumed,      \* the triggers the coordinator has received, in order
    co_emitted,       \* the plans whose response_tx.send has completed, in order
    co_received,      \* the plans the consumer has received, in order
    bid_in,           \* the arguments of BidEvaluator::evaluate: evaluator, bids, max_cost, q
    bid_out,          \* the last evaluate call: whether made, the Vec<ScoredBid> returned
    decomp_in,        \* the strategy and the task given to decompose
    decomp_out,       \* the last decompose call: whether made, proposal, is_acyclic()
    http_reqs,        \* the transition_task requests in flight: position, path, body, response
    shard_lock,       \* DashMap: the request holding each shard's write lock (0: none)
    shard_of,         \* DashMap: the shard each key hashes to
    assign_last,      \* the last assignment to a task's state: request, before, event, after
    ep_state,         \* the state task 1 had when no request was in flight
    cp_tx,            \* the checkpoint senders: "open", or "dropped" (all of them)
    mon_shutdown_tx,  \* the sender of the monitoring loop's watch channel
    trig_tx,          \* the trigger senders: "open", or "dropped" (all of them)
    co_shutdown_tx    \* the sender of the coordinator's watch channel

taskVars   == <<task, task_events, task_last>>
serverVars == <<tasks, response>>
ledgerVars == <<ledger, next_id>>
writerVars == <<w_pc, w_prev>>
fileVars   == <<persisted, loads>>
permVars   == <<perm, att_depth, att_ok, att_failed, att_last>>
repVars    == <<scores, rep_pc, rep_obs, rep_new, rep_prev, rep_fault, rep_entry,
                rep_result>>
evalVars   == <<trust_last, check_last>>
cbVars     == <<breakers, cb_config, cb_pure, cb_last>>
disputeVars == <<dispute, dispute_last>>
sloVars    == <<slo_defs, slo_cp, slo_last>>
monVars    == <<cp_chan, cp_sent, evt_chan, evt_rx, shutdown, agent_heartbeats,
                mon_config, mon_pc, mon_cp, mon_queue, hb_next, mon_log, mon_last,
                hb_last, hb_refreshed>>
coordVars  == <<trig_chan, trig_sent, plan_chan, plan_rx, co_shutdown, co_pc, co_plan,
                co_consumed, co_emitted, co_received>>
bidVars    == <<bid_in, bid_out>>
decompVars == <<decomp_in, decomp_out>>
reqVars    == <<http_reqs, shard_lock, shard_of, assign_last, ep_state>>
senderVars == <<cp_tx, mon_shutdown_tx, trig_tx, co_shutdown_tx>>
controlVars == <<sloVars, monVars, coordVars, bidVars, decompVars, reqVars, senderVars>>
policyVars == <<permVars, repVars, evalVars, cbVars, disputeVars, controlVars>>
vars == <<now, taskVars, serverVars, ledgerVars, writerVars, fileVars, policyVars>>

-----------------------------------------------------------------------------
(* Bounds of the model *)

MaxClock  == 2    \* clock ticks
MaxEvents == 13   \* accepted events in one task's history
MaxTasks  == 2    \* tasks created on the server
MaxEntries == 3   \* entries in a ledger
MaxLoads  == 1    \* loads of the state file
MaxDepth  == 2    \* max_delegation_depth of a permission set
MaxCalls  == 2    \* update_reputation calls
MaxThreshold == 2 \* failure threshold of a circuit breaker
MaxFailures == 3  \* failures recorded on one circuit breaker
MaxDefs   == 2    \* definitions of an SloChecker
MaxCheckpoints == 2 \* checkpoints sent to the monitoring loop
MaxBuffer == 1    \* capacity of a bounded mpsc channel
MaxTriggers == 2  \* triggers sent to the coordinator
MaxBids   == 3    \* bids given to one evaluation
MaxRequests == 2  \* transition_task requests in flight at once

-----------------------------------------------------------------------------
(* Task state machine: src/src/types/task.rs *)

TaskState == {"Pending", "Decomposing", "AwaitingAssignment", "Negotiating",
              "Contracted", "InProgress", "AwaitingVerification", "Completed",
              "Failed", "Disputed"}

TaskEvent == {"StartDecomposition", "DecompositionComplete", "SkipDecomposition",
              "StartNegotiation", "NegotiationComplete", "ContractSigned",
              "StartExecution", "ExecutionComplete", "VerificationPassed",
              "VerificationFailed", "DisputeRaised", "DisputeResolved",
              "TaskFailed", "Retry"}

\* Result<TaskState>: Ok(state) or Err(InvalidStateTransition{from, event})
Ok(s) == [tag |-> "Ok", state |-> s, from |-> "-", event |-> "-"]
InvalidStateTransition(s, e) ==
    [tag |-> "InvalidStateTransition", state |-> "-", from |-> s, event |-> e]

\* Faulty variants of TaskState::transition
transition_RetryFromCompleted(self, event) ==
    CASE self = "Pending" /\ event = "StartDecomposition" -> Ok("Decomposing")
      [] self = "Pending" /\ event = "SkipDecomposition" -> Ok("AwaitingAssignment")
      [] self = "Decomposing" /\ event = "DecompositionComplete" -> Ok("AwaitingAssignment")
      [] self = "AwaitingAssignment" /\ event = "StartNegotiation" -> Ok("Negotiating")
      [] self = "Negotiating" /\ event = "NegotiationComplete" -> Ok("Contracted")
      [] self = "Contracted" /\ event = "StartExecution" -> Ok("InProgress")
      [] self = "InProgress" /\ event = "ExecutionComplete" -> Ok("AwaitingVerification")
      [] self = "InProgress" /\ event = "TaskFailed" -> Ok("Failed")
      [] self = "AwaitingVerification" /\ event = "VerificationPassed" -> Ok("Completed")
      [] self = "AwaitingVerification" /\ event = "VerificationFailed" -> Ok("Failed")
      [] self = "AwaitingVerification" /\ event = "DisputeRaised" -> Ok("Disputed")
      [] self = "Disputed" /\ event = "DisputeResolved" -> Ok("Completed")
      [] self = "Disputed" /\ event = "TaskFailed" -> Ok("Failed")
      [] self \in {"Failed", "Completed"} /\ event = "Retry" -> Ok("Pending")
      [] OTHER -> InvalidStateTransition(self, event)

transition_DisputeFailCompletes(self, event) ==
    CASE self = "Pending" /\ event = "StartDecomposition" -> Ok("Decomposing")
      [] self = "Pending" /\ event = "SkipDecomposition" -> Ok("AwaitingAssignment")
      [] self = "Decomposing" /\ event = "DecompositionComplete" -> Ok("AwaitingAssignment")
      [] self = "AwaitingAssignment" /\ event = "StartNegotiation" -> Ok("Negotiating")
      [] self = "Negotiating" /\ event = "NegotiationComplete" -> Ok("Contracted")
      [] self = "Contracted" /\ event = "StartExecution" -> Ok("InProgress")
      [] self = "InProgress" /\ event = "ExecutionComplete" -> Ok("AwaitingVerification")
      [] self = "InProgress" /\ event = "TaskFailed" -> Ok("Failed")
      [] self = "AwaitingVerification" /\ event = "VerificationPassed" -> Ok("Completed")
      [] self = "AwaitingVerification" /\ event = "VerificationFailed" -> Ok("Failed")
      [] self = "AwaitingVerification" /\ event = "DisputeRaised" -> Ok("Disputed")
      [] self = "Disputed" /\ event = "DisputeResolved" -> Ok("Completed")
      [] self = "Disputed" /\ event = "TaskFailed" -> Ok("Completed")
      [] self = "Failed" /\ event = "Retry" -> Ok("Pending")
      [] OTHER -> InvalidStateTransition(self, event)

transition_ContractSignedAccepted(self, event) ==
    CASE self = "Pending" /\ event = "StartDecomposition" -> Ok("Decomposing")
      [] self = "Pending" /\ event = "SkipDecomposition" -> Ok("AwaitingAssignment")
      [] self = "Decomposing" /\ event = "DecompositionComplete" -> Ok("AwaitingAssignment")
      [] self = "AwaitingAssignment" /\ event = "StartNegotiation" -> Ok("Negotiating")
      [] self = "Negotiating" /\ event = "NegotiationComplete" -> Ok("Contracted")
      [] self = "Negotiating" /\ event = "ContractSigned" -> Ok("Contracted")
      [] self = "Contracted" /\ event = "StartExecution" -> Ok("InProgress")
      [] self = "InProgress" /\ event = "ExecutionComplete" -> Ok("AwaitingVerification")
      [] self = "InProgress" /\ event = "TaskFailed" -> Ok("Failed")
      [] self = "AwaitingVerification" /\ event = "VerificationPassed" -> Ok("Completed")
      [] self = "AwaitingVerification" /\ event = "VerificationFailed" -> Ok("Failed")
      [] self = "AwaitingVerification" /\ event = "DisputeRaised" -> Ok("Disputed")
      [] self = "Disputed" /\ event = "DisputeResolved" -> Ok("Completed")
      [] self = "Disputed" /\ event = "TaskFailed" -> Ok("Failed")
      [] self = "Failed" /\ event = "Retry" -> Ok("Pending")
      [] OTHER -> InvalidStateTransition(self, event)

transition_NoRetry(self, event) ==
    CASE self = "Pending" /\ event = "StartDecomposition" -> Ok("Decomposing")
      [] self = "Pending" /\ event = "SkipDecomposition" -> Ok("AwaitingAssignment")
      [] self = "Decomposing" /\ event = "DecompositionComplete" -> Ok("AwaitingAssignment")
      [] self = "AwaitingAssignment" /\ event = "StartNegotiation" -> Ok("Negotiating")
      [] self = "Negotiating" /\ event = "NegotiationComplete" -> Ok("Contracted")
      [] self = "Contracted" /\ event = "StartExecution" -> Ok("InProgress")
      [] self = "InProgress" /\ event = "ExecutionComplete" -> Ok("AwaitingVerification")
      [] self = "InProgress" /\ event = "TaskFailed" -> Ok("Failed")
      [] self = "AwaitingVerification" /\ event = "VerificationPassed" -> Ok("Completed")
      [] self = "AwaitingVerification" /\ event = "VerificationFailed" -> Ok("Failed")
      [] self = "AwaitingVerification" /\ event = "DisputeRaised" -> Ok("Disputed")
      [] self = "Disputed" /\ event = "DisputeResolved" -> Ok("Completed")
      [] self = "Disputed" /\ event = "TaskFailed" -> Ok("Failed")
      [] OTHER -> InvalidStateTransition(self, event)

\* TaskState::transition: the match of task.rs:90-135, arm by arm
transition(self, event) ==
    CASE self = "Pending" /\ event = "StartDecomposition" -> Ok("Decomposing")
      [] self = "Pending" /\ event = "SkipDecomposition" -> Ok("AwaitingAssignment")
      [] self = "Decomposing" /\ event = "DecompositionComplete" -> Ok("AwaitingAssignment")
      [] self = "AwaitingAssignment" /\ event = "StartNegotiation" -> Ok("Negotiating")
      [] self = "Negotiating" /\ event = "NegotiationComplete" -> Ok("Contracted")
      [] self = "Contracted" /\ event = "StartExecution" -> Ok("InProgress")
      [] self = "InProgress" /\ event = "ExecutionComplete" -> Ok("AwaitingVerification")
      [] self = "InProgress" /\ event = "TaskFailed" -> Ok("Failed")
      [] self = "AwaitingVerification" /\ event = "VerificationPassed" -> Ok("Completed")
      [] self = "AwaitingVerification" /\ event = "VerificationFailed" -> Ok("Failed")
      [] self = "AwaitingVerification" /\ event = "DisputeRaised" -> Ok("Disputed")
      [] self = "Disputed" /\ event = "DisputeResolved" -> Ok("Completed")
      [] self = "Disputed" /\ event = "TaskFailed" -> Ok("Failed")
      [] self = "Failed" /\ event = "Retry" -> Ok("Pending")
      [] OTHER -> InvalidStateTransition(self, event)

\* Task::new at time t
Task_new(t) == [state |-> "Pending", created_at |-> t, updated_at |-> t]

\* Faulty variant of Task::apply_event: updated_at is bumped before the transition is tried
apply_event_BumpFirst(self, event, t) ==
    LET r == transition(self.state, event) IN
    IF r.tag = "Ok"
    THEN [result |-> r, task |-> [self EXCEPT !.state = r.state, !.updated_at = t]]
    ELSE [result |-> r, task |-> [self EXCEPT !.updated_at = t]]

\* Task::apply_event at time t: the `?` returns the error before any assignment
apply_event(self, event, t) ==
    LET r == transition(self.state, event) IN
    IF r.tag = "Ok"
    THEN [result |-> r, task |-> [self EXCEPT !.state = r.state, !.updated_at = t]]
    ELSE [result |-> r, task |-> self]

NoCall == [event |-> "-", before |-> Task_new(0), at |-> 0, result |-> Ok("-")]

-----------------------------------------------------------------------------
(* Ledger entries: src/crates/panopticon-ledger/src/entry.rs *)

HashBits == 8          \* the model keeps the low HashBits bits of the 128-bit fingerprint
FnvOffsetLow == 8997   \* 0x2325, the low 16 bits of 0xcbf29ce484222325
FnvPrimeLow == 435     \* 0x01b3, the low 16 bits of 0x100000001b3

RECURSIVE Pow2(_)
Pow2(n) == IF n = 0 THEN 1 ELSE 2 * Pow2(n - 1)

\* bitwise exclusive or of two naturals
RECURSIVE Xor(_, _)
Xor(a, b) ==
    IF a = 0 THEN b
    ELSE IF b = 0 THEN a
    ELSE ((a + b) % 2) + 2 * Xor(a \div 2, b \div 2)

\* Option<T>: None, Some(x)
None == <<>>
Some(x) == <<x>>

\* the identifiers and payloads the writers use
Actors   == {1}
Subjects == {1, 2}
Payloads == {0, 1}

\* the {:?} rendering of LedgerEntryKind, one symbol per kind
KindCode(kind) ==
    CASE kind = "TaskCreated" -> 1
      [] kind = "TaskStateChanged" -> 2
      [] kind = "CheckpointRecorded" -> 8
      [] kind = "ReputationUpdated" -> 12

\* `^` as a function of two naturals
XorTable == [a \in Nat, b \in Nat |-> Xor(a, b)]

\* md5_like_hash: h = offset; for each byte b: h = h.wrapping_mul(prime); h ^= b.
\* Multiplication and xor act on the low bits alone, so the low HashBits bits of the
\* fingerprint are computed exactly; `data` is the sequence of symbols of the input.
RECURSIVE md5_like_hash_from(_, _, _)
md5_like_hash_from(h, data, i) ==
    IF i > Len(data) THEN h
    ELSE md5_like_hash_from(
            XorTable[(h * (FnvPrimeLow % Pow2(HashBits))) % Pow2(HashBits),
                     data[i] % Pow2(HashBits)],
            data, i + 1)

md5_like_hash(data) == md5_like_hash_from(FnvOffsetLow % Pow2(HashBits), data, 1)

\* the hash input of LedgerEntry::new: id:timestamp:kind:actor:subject:payload:previous,
\* where previous is the previous hash or the word "genesis"
hash_input(id, timestamp, kind, actor_id, subject_id, payload, previous_hash) ==
    <<id, timestamp, KindCode(kind), actor_id, subject_id, payload>>
        \o (IF previous_hash = None THEN <<0, 0>> ELSE <<1, previous_hash[1]>>)

\* LedgerEntry::new with the id and the timestamp it draws
LedgerEntry_new(id, timestamp, kind, actor_id, subject_id, payload, previous_hash) ==
    [id |-> id, kind |-> kind, timestamp |-> timestamp, actor_id |-> actor_id,
     subject_id |-> subject_id, payload |-> payload, previous_hash |-> previous_hash,
     hash |-> md5_like_hash(hash_input(id, timestamp, kind, actor_id, subject_id,
                                       payload, previous_hash))]

-----------------------------------------------------------------------------
(* Ledger implementations: panopticon-ledger/src/memory.rs and merkle.rs.  *)
(* Indices are 0-based as in the code; entries[i + 1] is the code's        *)
(* entries[i].                                                              *)

\* f with key k set to v (DashMap::insert)
Put(f, k, v) == [x \in DOMAIN f \cup {k} |-> IF x = k THEN v ELSE f[x]]

InMemoryLedger_new ==
    [impl |-> "InMemory", entries |-> <<>>, index_by_id |-> <<>>,
     index_by_subject |-> <<>>, tree |-> <<>>]

MerkleLedger_new ==
    [impl |-> "Merkle", entries |-> <<>>, index_by_id |-> <<>>,
     index_by_subject |-> <<>>, tree |-> <<>>]

\* Faulty variant of InMemoryLedger::append: the entry is inserted at the front
InMemoryLedger_append_Front(self, entry) ==
    LET idx == Len(self.entries) IN
    [self EXCEPT
        !.index_by_id = Put(self.index_by_id, entry.id, idx),
        !.index_by_subject =
            Put(self.index_by_subject, entry.subject_id,
                IF entry.subject_id \in DOMAIN self.index_by_subject
                THEN Append(self.index_by_subject[entry.subject_id], idx)
                ELSE <<idx>>),
        !.entries = <<entry>> \o self.entries]

\* Faulty variant of InMemoryLedger::append: an entry that does not link to the
\* latest hash is refused
InMemoryLedger_append_Validating(self, entry) ==
    LET idx == Len(self.entries)
        latest == IF idx = 0 THEN None ELSE Some(self.entries[idx].hash)
    IN IF entry.previous_hash # latest THEN self
       ELSE [self EXCEPT
                !.index_by_id = Put(self.index_by_id, entry.id, idx),
                !.index_by_subject =
                    Put(self.index_by_subject, entry.subject_id,
                        IF entry.subject_id \in DOMAIN self.index_by_subject
                        THEN Append(self.index_by_subject[entry.subject_id], idx)
                        ELSE <<idx>>),
                !.entries = Append(self.entries, entry)]

\* InMemoryLedger::append
InMemoryLedger_append(self, entry) ==
    LET idx == Len(self.entries) IN
    [self EXCEPT
        !.index_by_id = Put(self.index_by_id, entry.id, idx),
        !.index_by_subject =
            Put(self.index_by_subject, entry.subject_id,
                IF entry.subject_id \in DOMAIN self.index_by_subject
                THEN Append(self.index_by_subject[entry.subject_id], idx)
                ELSE <<idx>>),
        !.entries = Append(self.entries, entry)]

\* InMemoryLedger::get
InMemoryLedger_get(self, id) ==
    IF id \in DOMAIN self.index_by_id /\ self.index_by_id[id] < Len(self.entries)
    THEN Some(self.entries[self.index_by_id[id] + 1])
    ELSE None

\* Faulty variant of latest_hash: the hash of the first entry
latest_hash_First(self) ==
    IF Len(self.entries) = 0 THEN None ELSE Some(self.entries[1].hash)

\* InMemoryLedger::latest_hash and MerkleLedger::latest_hash (the same code)
latest_hash(self) ==
    IF Len(self.entries) = 0 THEN None
    ELSE Some(self.entries[Len(self.entries)].hash)

\* InMemoryLedger::query_by_subject
InMemoryLedger_query_by_subject(self, subject_id) ==
    IF subject_id \in DOMAIN self.index_by_subject
    THEN LET indices == self.index_by_subject[subject_id] IN
         [k \in 1..Len(indices) |-> self.entries[indices[k] + 1]]
    ELSE <<>>

\* InMemoryLedger::verify_integrity
InMemoryLedger_verify_integrity(self) ==
    \A i \in 1..Len(self.entries) :
        IF i = 1
        THEN self.entries[i].previous_hash = None
        ELSE self.entries[i].previous_hash = Some(self.entries[i - 1].hash)

\* entry_to_leaf: SHA-256 of "id:hash", a collision-free hash kept as its preimage
entry_to_leaf(entry) == <<"leaf", entry.id, entry.hash>>

\* the root rs_merkle computes over the leaves: pairs are hashed together, an odd
\* last node moves up as it is
RECURSIVE MerkleRoot(_)
MerkleRoot(nodes) ==
    IF Len(nodes) = 1 THEN nodes[1]
    ELSE MerkleRoot([k \in 1..((Len(nodes) + 1) \div 2) |->
                        IF 2 * k <= Len(nodes)
                        THEN <<"node", nodes[2 * k - 1], nodes[2 * k]>>
                        ELSE nodes[2 * k - 1]])

\* MerkleLedger::append: tree.insert(leaf); tree.commit(); entries.push(entry)
MerkleLedger_append(self, entry) ==
    [self EXCEPT !.tree = Append(self.tree, entry_to_leaf(entry)),
                 !.entries = Append(self.entries, entry)]

\* MerkleLedger::get: the first entry with the id
MerkleLedger_get(self, id) ==
    LET found == {i \in 1..Len(self.entries) : self.entries[i].id = id} IN
    IF found = {} THEN None
    ELSE Some(self.entries[CHOOSE i \in found : \A j \in found : i <= j])

\* MerkleLedger::verify_integrity: the proof of all leaves against the tree's root
MerkleLedger_verify_integrity(self) ==
    IF Len(self.entries) = 0 THEN TRUE
    ELSE IF Len(self.tree) > 0
    THEN MerkleRoot([i \in 1..Len(self.entries) |-> entry_to_leaf(self.entries[i])])
            = MerkleRoot(self.tree)
    ELSE FALSE

\* dyn Ledger dispatch
Ledger_append(self, entry) ==
    IF self.impl = "InMemory" THEN InMemoryLedger_append(self, entry)
    ELSE MerkleLedger_append(self, entry)

Ledger_get(self, id) ==
    IF self.impl = "InMemory" THEN InMemoryLedger_get(self, id)
    ELSE MerkleLedger_get(self, id)

Ledger_verify_integrity(self) ==
    IF self.impl = "InMemory" THEN InMemoryLedger_verify_integrity(self)
    ELSE MerkleLedger_verify_integrity(self)

-----------------------------------------------------------------------------
(* Permission sets and attenuation: panopticon-types agent.rs,             *)
(* panopticon-permissions attenuation.rs                                   *)

NaN == -1   \* the f64 value NaN; no other f64 drawn in the model has this code

\* f64 `<=`: false when either side is NaN
F64Le(a, b) == a # NaN /\ b # NaN /\ a <= b

\* f64::min: the other argument when one is NaN
F64Min(a, b) ==
    IF a = NaN THEN b ELSE IF b = NaN THEN a ELSE IF a <= b THEN a ELSE b

\* Vec<String>::contains
Contains(vec, x) == \E i \in 1..Len(vec) : vec[i] = x

\* iter().filter(|a| other.contains(a)).cloned().collect(): order and repeats kept
Filter(vec, other) == SelectSeq(vec, LAMBDA x : Contains(other, x))

ActionVecs == {<<>>, <<"read">>, <<"write">>, <<"read", "write">>, <<"read", "read">>}
ClassificationVecs == {<<>>, <<"public">>}
Budgets == {NaN, 1, 2}

PermissionSet(depths) ==
    [allowed_actions : ActionVecs,
     max_delegation_depth : depths,
     max_cost_budget : Budgets,
     allowed_data_classifications : ClassificationVecs]

\* PermissionSet::default; its budget of 100.0 is the largest budget of the model
PermissionSet_default ==
    [allowed_actions |-> <<>>, max_delegation_depth |-> 1,
     max_cost_budget |-> 2, allowed_data_classifications |-> <<>>]

\* PermissionSet::is_subset_of
is_subset_of(self, parent) ==
    /\ self.max_delegation_depth <= parent.max_delegation_depth
    /\ F64Le(self.max_cost_budget, parent.max_cost_budget)
    /\ \A i \in 1..Len(self.allowed_actions) :
          Contains(parent.allowed_actions, self.allowed_actions[i])
    /\ \A i \in 1..Len(self.allowed_data_classifications) :
          Contains(parent.allowed_data_classifications,
                   self.allowed_data_classifications[i])

\* Result<PermissionSet>
AttOk(p) == [tag |-> "Ok", value |-> Some(p)]
PermissionDenied == [tag |-> "PermissionDenied", value |-> None]

\* Faulty variant of attenuate: the requested depth is honoured when it is lower
attenuate_RequestedDepth(parent, child_request) ==
    IF parent.max_delegation_depth = 0 THEN PermissionDenied
    ELSE LET attenuated ==
                [allowed_actions |->
                     Filter(child_request.allowed_actions, parent.allowed_actions),
                 max_delegation_depth |->
                     IF child_request.max_delegation_depth
                            < parent.max_delegation_depth - 1
                     THEN child_request.max_delegation_depth
                     ELSE parent.max_delegation_depth - 1,
                 max_cost_budget |->
                     F64Min(child_request.max_cost_budget, parent.max_cost_budget),
                 allowed_data_classifications |->
                     Filter(child_request.allowed_data_classifications,
                            parent.allowed_data_classifications)]
         IN IF ~is_subset_of(attenuated, parent) THEN PermissionDenied
            ELSE AttOk(attenuated)

\* Faulty variant of attenuate: the delegation depth is not reduced
attenuate_KeepDepth(parent, child_request) ==
    IF parent.max_delegation_depth = 0 THEN PermissionDenied
    ELSE LET attenuated ==
                [allowed_actions |->
                     Filter(child_request.allowed_actions, parent.allowed_actions),
                 max_delegation_depth |-> parent.max_delegation_depth,
                 max_cost_budget |->
                     F64Min(child_request.max_cost_budget, parent.max_cost_budget),
                 allowed_data_classifications |->
                     Filter(child_request.allowed_data_classifications,
                            parent.allowed_data_classifications)]
         IN IF ~is_subset_of(attenuated, parent) THEN PermissionDenied
            ELSE AttOk(attenuated)

\* attenuate(parent, child_request)
attenuate(parent, child_request) ==
    IF parent.max_delegation_depth = 0 THEN PermissionDenied
    ELSE LET attenuated ==
                [allowed_actions |->
                     Filter(child_request.allowed_actions, parent.allowed_actions),
                 max_delegation_depth |-> parent.max_delegation_depth - 1,
                 max_cost_budget |->
                     F64Min(child_request.max_cost_budget, parent.max_cost_budget),
                 allowed_data_classifications |->
                     Filter(child_request.allowed_data_classifications,
                            parent.allowed_data_classifications)]
         IN IF ~is_subset_of(attenuated, parent) THEN PermissionDenied
            ELSE AttOk(attenuated)

NoAttenuate ==
    [parent |-> PermissionSet_default, requested |-> PermissionSet_default,
     result |-> PermissionDenied, called |-> FALSE]

-----------------------------------------------------------------------------
(* Reputation engine: src/src/reputation/score.rs, engine.rs               *)

Scale == 1000   \* f64 scores, values and thresholds are held in units of 1/Scale

ReputationDimension == {"Completion", "Quality", "Reliability", "Safety", "Behavioral"}

\* DimensionScore::new: score 0.5, no observations
DimensionScore_new == [score |-> Scale \div 2, observations |-> 0]

\* AgentReputation::new
AgentReputation_new ==
    [dims |-> [d \in ReputationDimension |-> DimensionScore_new], total_tasks |-> 0]

\* AgentReputation::to_reputation_score
to_reputation_score(rep) == [d \in ReputationDimension |-> rep.dims[d].score]

\* f64::clamp(0.0, 1.0): NaN stays NaN
clamp01(x) == IF x = NaN THEN NaN ELSE IF x < 0 THEN 0 ELSE IF x > Scale THEN Scale ELSE x

\* the largest r in lo..hi with r * r <= m
RECURSIVE sqrt_between(_, _, _)
sqrt_between(m, lo, hi) ==
    IF lo >= hi THEN lo
    ELSE LET mid == (lo + hi + 1) \div 2 IN
         IF mid * mid <= m THEN sqrt_between(m, mid, hi)
         ELSE sqrt_between(m, lo, mid - 1)

\* (n as f64).sqrt(), in units of 1/Scale, rounded down
sqrt(n) == sqrt_between(n * Scale * Scale, 0, n * Scale)

\* adaptive_alpha: 1.0 / (1.0 + sqrt(completed_tasks)), in units of 1/Scale
adaptive_alpha(completed_tasks) == (Scale * Scale) \div (Scale + sqrt(completed_tasks))

\* alpha * value + (1.0 - alpha) * score; NaN when an operand is NaN
ema(alpha, value, score) ==
    IF value = NaN \/ score = NaN THEN NaN
    ELSE (alpha * value + (Scale - alpha) * score) \div Scale

\* Faulty variant of the get_mut block: total_tasks is left alone
apply_observation_NoCount(rep, dimension, value) ==
    LET alpha == adaptive_alpha(rep.total_tasks)
        dim == rep.dims[dimension]
    IN [rep EXCEPT !.dims[dimension] =
                       [score |-> clamp01(ema(alpha, value, dim.score)),
                        observations |-> dim.observations + 1]]

\* Faulty variant of the get_mut block: the record is left alone until the
\* ledger has the entry
apply_observation_Deferred(rep, dimension, value) == rep

\* Faulty variant of the get_mut block: alpha decays per dimension
apply_observation_PerDimension(rep, dimension, value) ==
    LET dim == rep.dims[dimension]
        alpha == adaptive_alpha(dim.observations)
    IN [rep EXCEPT !.dims[dimension] =
                       [score |-> clamp01(ema(alpha, value, dim.score)),
                        observations |-> dim.observations + 1],
                   !.total_tasks = rep.total_tasks + 1]

\* update_reputation, the block under get_mut (engine.rs:46-58); `value` is the
\* clamped observation
apply_observation(rep, dimension, value) ==
    LET alpha == adaptive_alpha(rep.total_tasks)
        dim == rep.dims[dimension]
    IN [rep EXCEPT !.dims[dimension] =
                       [score |-> clamp01(ema(alpha, value, dim.score)),
                        observations |-> dim.observations + 1],
                   !.total_tasks = rep.total_tasks + 1]

\* serde_json number: NaN is rendered null
JsonNumber(x) == IF x = NaN THEN 0 ELSE x + 2 * Scale + 1

DimensionCode(d) ==
    CASE d = "Completion" -> 1 [] d = "Quality" -> 2 [] d = "Reliability" -> 3
      [] d = "Safety" -> 4 [] d = "Behavioral" -> 5

\* json!({dimension, observed_value, new_score}) as it enters the hash input:
\* the rendered payload, folded to one symbol
ReputationPayload(dimension, observed_value, new_score) ==
    md5_like_hash(<<DimensionCode(dimension), JsonNumber(observed_value),
                    JsonNumber(new_score["Completion"]), JsonNumber(new_score["Quality"]),
                    JsonNumber(new_score["Reliability"]), JsonNumber(new_score["Safety"]),
                    JsonNumber(new_score["Behavioral"])>>)

\* Faulty variant of the entry of update_reputation: actor and subject exchanged
reputation_entry_Swapped(id, timestamp, obs, new_score, previous_hash) ==
    LedgerEntry_new(id, timestamp, "ReputationUpdated", obs.task_id, obs.agent_id,
                    ReputationPayload(obs.dimension, obs.value, new_score),
                    previous_hash)

\* LedgerEntry::new(ReputationUpdated, agent_id, observation.task_id, payload,
\* previous_hash) in update_reputation
reputation_entry(id, timestamp, obs, new_score, previous_hash) ==
    LedgerEntry_new(id, timestamp, "ReputationUpdated", obs.agent_id, obs.task_id,
                    ReputationPayload(obs.dimension, obs.value, new_score),
                    previous_hash)

\* Result<ReputationScore, PanopticonError>
RepOk(score) == [tag |-> "Ok", value |-> Some(score)]
LedgerError == [tag |-> "LedgerError", value |-> None]
NoResult == [tag |-> "-", value |-> None]

\* ReputationObservation, without its timestamp
NoObservation == [agent_id |-> 0, task_id |-> 0, dimension |-> "Completion", value |-> 0]

-----------------------------------------------------------------------------
(* Trust levels and approval requirements: engine.rs compute_trust_level,  *)
(* src/src/permissions/level.rs, evaluator.rs                              *)

\* f64 `<`: false when either side is NaN
F64Lt(a, b) == a # NaN /\ b # NaN /\ a < b

\* enum TrustLevel, in its derived order
TrustLevel == <<"Untrusted", "Low", "Medium", "High", "Full">>

\* Faulty variant of compute_trust_level: a threshold value maps to the lower band
compute_trust_level_ThresholdLower(composite) ==
    IF F64Le(composite, (2 * Scale) \div 10) THEN "Untrusted"
    ELSE IF F64Le(composite, (4 * Scale) \div 10) THEN "Low"
    ELSE IF F64Le(composite, (6 * Scale) \div 10) THEN "Medium"
    ELSE IF F64Le(composite, (8 * Scale) \div 10) THEN "High"
    ELSE "Full"

\* ReputationEngine::compute_trust_level
compute_trust_level(composite) ==
    IF F64Lt(composite, (2 * Scale) \div 10) THEN "Untrusted"
    ELSE IF F64Lt(composite, (4 * Scale) \div 10) THEN "Low"
    ELSE IF F64Lt(composite, (6 * Scale) \div 10) THEN "Medium"
    ELSE IF F64Lt(composite, (8 * Scale) \div 10) THEN "High"
    ELSE "Full"

\* ApprovalRequirement values
JustInTime ==
    [level |-> "JustInTimePermission", required_approvers |-> 2, human_required |-> TRUE]
Contextual ==
    [level |-> "ContextualPermission", required_approvers |-> 1, human_required |-> FALSE]
Standing ==
    [level |-> "StandingPermission", required_approvers |-> 0, human_required |-> FALSE]

\* ApprovalRequirement::from_characteristics
from_characteristics(chars) ==
    IF F64Le((7 * Scale) \div 10, chars.criticality)
          \/ F64Lt(chars.reversibility, (4 * Scale) \div 10)
    THEN JustInTime
    ELSE IF F64Lt(chars.criticality, (4 * Scale) \div 10)
               /\ F64Le((6 * Scale) \div 10, chars.reversibility)
    THEN Standing
    ELSE Contextual

\* Faulty variant of adjust_for_trust: no exception for critical tasks
adjust_for_trust_NoCriticalGuard(base, trust_level, characteristics) ==
    CASE trust_level = "Full" ->
            (CASE base.level = "JustInTimePermission" -> Contextual
               [] base.level = "ContextualPermission" -> Standing
               [] base.level = "StandingPermission" -> base)
      [] trust_level = "High" ->
            (IF base.level = "JustInTimePermission" THEN Contextual ELSE base)
      [] OTHER -> base

\* PermissionEvaluator::adjust_for_trust
adjust_for_trust(base, trust_level, characteristics) ==
    LET is_critical == F64Le((7 * Scale) \div 10, characteristics.criticality) IN
    IF is_critical /\ base.level = "JustInTimePermission" THEN base
    ELSE CASE trust_level = "Full" ->
                 (CASE base.level = "JustInTimePermission" -> Contextual
                    [] base.level = "ContextualPermission" -> Standing
                    [] base.level = "StandingPermission" -> base)
           [] trust_level = "High" ->
                 (IF base.level = "JustInTimePermission" THEN Contextual ELSE base)
           [] trust_level \in {"Medium", "Low", "Untrusted"} -> base

\* Agent::has_capability
has_capability(agent, name) == Contains(agent.capabilities, name)

\* Result<ApprovalRequirement>
CheckOk(req) == [tag |-> "Ok", value |-> Some(req), name |-> "-"]
CapabilityMismatch(cap) == [tag |-> "CapabilityMismatch", value |-> None, name |-> cap]
ActionDenied(cap) == [tag |-> "PermissionDenied", value |-> None, name |-> cap]

\* PermissionEvaluator::check_permission: each for loop returns at the first
\* capability that fails its test
check_permission(agent, a_task) ==
    LET missing == SelectSeq(a_task.required_capabilities,
                             LAMBDA cap : ~has_capability(agent, cap))
        denied == SelectSeq(a_task.required_capabilities,
                            LAMBDA cap : ~Contains(agent.permissions.allowed_actions, cap))
    IN IF missing # <<>> THEN CapabilityMismatch(missing[1])
       ELSE IF denied # <<>> THEN ActionDenied(denied[1])
       ELSE CheckOk(adjust_for_trust(from_characteristics(a_task.characteristics),
                                     agent.trust_level, a_task.characteristics))

-----------------------------------------------------------------------------
(* Circuit breakers: panopticon-security circuit_breaker.rs                *)

\* CircuitBreaker::new
CircuitBreaker_new(threshold, cooldown_secs, reputation_threshold) ==
    [state |-> "Closed", failure_count |-> 0, threshold |-> threshold,
     last_failure_at |-> None, cooldown_secs |-> cooldown_secs,
     reputation_threshold |-> reputation_threshold]

\* Faulty variant of CircuitBreaker::record_failure: trips when the count exceeds
\* the threshold
CircuitBreaker_record_failure_Exceeds(self, t) ==
    LET failure_count == self.failure_count + 1 IN
    [self EXCEPT !.failure_count = failure_count,
                 !.last_failure_at = Some(t),
                 !.state = IF failure_count > self.threshold THEN "Open" ELSE @]

\* CircuitBreaker::record_failure at time t
CircuitBreaker_record_failure(self, t) ==
    LET failure_count == self.failure_count + 1 IN
    [self EXCEPT !.failure_count = failure_count,
                 !.last_failure_at = Some(t),
                 !.state = IF failure_count >= self.threshold THEN "Open" ELSE @]

\* CircuitBreaker::check_cooldown at time t
check_cooldown(self, t) ==
    IF self.state # "Open" THEN self
    ELSE IF self.last_failure_at # None
    THEN LET elapsed == t - self.last_failure_at[1] IN
         IF elapsed >= self.cooldown_secs THEN [self EXCEPT !.state = "HalfOpen"]
         ELSE self
    ELSE self

\* Faulty variant of CircuitBreaker::record_success: the probe's success
\* closes the breaker and keeps the failure count
CircuitBreaker_record_success_KeepCount(self) ==
    CASE self.state = "HalfOpen" ->
            [self EXCEPT !.state = "Closed", !.last_failure_at = None]
      [] self.state = "Closed" ->
            IF self.failure_count > 0
            THEN [self EXCEPT !.failure_count = self.failure_count - 1]
            ELSE self
      [] self.state = "Open" -> self

\* CircuitBreaker::record_success
CircuitBreaker_record_success(self) ==
    CASE self.state = "HalfOpen" ->
            [self EXCEPT !.state = "Closed", !.failure_count = 0,
                         !.last_failure_at = None]
      [] self.state = "Closed" ->
            IF self.failure_count > 0
            THEN [self EXCEPT !.failure_count = self.failure_count - 1]
            ELSE self
      [] self.state = "Open" -> self

\* Faulty variant of CircuitBreaker::check_reputation: last_failure_at is left
\* alone
CircuitBreaker_check_reputation_NoRestart(self, composite, t) ==
    IF F64Lt(composite, self.reputation_threshold)
    THEN [self EXCEPT !.state = "Open",
                      !.last_failure_at = IF @ = None THEN Some(t) ELSE @]
    ELSE self

\* CircuitBreaker::check_reputation, given reputation.composite(), at time t
CircuitBreaker_check_reputation(self, composite, t) ==
    IF F64Lt(composite, self.reputation_threshold)
    THEN [self EXCEPT !.state = "Open", !.last_failure_at = Some(t)]
    ELSE self

\* CircuitBreaker::is_allowed
is_allowed(self) == self.state \in {"Closed", "HalfOpen"}

\* breakers.entry(agent_id).or_insert_with(|| CircuitBreaker::new(defaults))
or_insert_default(map, agent_id, config) ==
    IF agent_id \in DOMAIN map THEN map
    ELSE Put(map, agent_id,
             CircuitBreaker_new(config.threshold, config.cooldown_secs,
                                config.reputation_threshold))

\* CircuitBreakerRegistry::record_failure
Registry_record_failure(map, config, agent_id, t) ==
    LET with_entry == or_insert_default(map, agent_id, config)
        was_open == with_entry[agent_id].state = "Open"
        entry == CircuitBreaker_record_failure(with_entry[agent_id], t)
    IN [breakers |-> Put(with_entry, agent_id, entry),
        result |-> IF ~was_open /\ entry.state = "Open" THEN "Some" ELSE "None"]

\* CircuitBreakerRegistry::record_success
Registry_record_success(map, agent_id) ==
    IF agent_id \in DOMAIN map
    THEN [breakers |-> Put(map, agent_id, CircuitBreaker_record_success(map[agent_id])),
          result |-> "()"]
    ELSE [breakers |-> map, result |-> "()"]

\* CircuitBreakerRegistry::check_reputation
Registry_check_reputation(map, config, agent_id, composite, t) ==
    LET with_entry == or_insert_default(map, agent_id, config)
        was_open == with_entry[agent_id].state = "Open"
        entry == CircuitBreaker_check_reputation(with_entry[agent_id], composite, t)
    IN [breakers |-> Put(with_entry, agent_id, entry),
        result |-> IF ~was_open /\ entry.state = "Open" THEN "Some" ELSE "None"]

\* Faulty variant of CircuitBreakerRegistry::check_agent: the cooldown is not applied
Registry_check_agent_NoCooldown(map, agent_id, t) ==
    IF agent_id \in DOMAIN map
    THEN [breakers |-> map,
          result |-> IF ~is_allowed(map[agent_id]) THEN "CircuitBreakerOpen" ELSE "Ok"]
    ELSE [breakers |-> map, result |-> "Ok"]

\* CircuitBreakerRegistry::check_agent
Registry_check_agent(map, agent_id, t) ==
    IF agent_id \in DOMAIN map
    THEN LET breaker == check_cooldown(map[agent_id], t) IN
         [breakers |-> Put(map, agent_id, breaker),
          result |-> IF ~is_allowed(breaker) THEN "CircuitBreakerOpen" ELSE "Ok"]
    ELSE [breakers |-> map, result |-> "Ok"]

\* the agents known to the registry's callers
BreakerAgents == Actors

\* Option<CircuitBreaker> of an agent in a map
BreakerOf(map, agent_id) ==
    IF agent_id \in DOMAIN map THEN Some(map[agent_id]) ELSE None

-----------------------------------------------------------------------------
(* Dispute state machine: src/src/verification/dispute.rs                  *)

DisputeState == {"Filed", "BondDeposited", "AlgorithmicResolution", "PanelReview",
                 "Adjudicated", "Settled"}

DisputeEvent == {"DepositBond", "RunAlgorithm", "RequestPanel", "Adjudicate", "Settle"}

\* enum DisputeResolution; Split carries the complainant's fraction
DisputeResolution ==
    {<<"InFavorOfComplainant">>, <<"InFavorOfRespondent">>,
     <<"Split", 0>>, <<"Split", Scale \div 2>>, <<"Split", NaN>>}

\* Result<DisputeState, PanopticonError> and Result<(), PanopticonError>
DisputeOk(x) == [tag |-> "Ok", state |-> x]
DisputeError == [tag |-> "DisputeError", state |-> "-"]

\* Faulty variant of DisputeState::transition: a panel review can be settled
DisputeState_transition_SettleFromPanel(self, event) ==
    CASE self = "Filed" /\ event = "DepositBond" -> DisputeOk("BondDeposited")
      [] self = "BondDeposited" /\ event = "RunAlgorithm" ->
            DisputeOk("AlgorithmicResolution")
      [] self = "AlgorithmicResolution" /\ event = "RequestPanel" ->
            DisputeOk("PanelReview")
      [] self = "AlgorithmicResolution" /\ event = "Settle" -> DisputeOk("Settled")
      [] self = "PanelReview" /\ event = "Adjudicate" -> DisputeOk("Adjudicated")
      [] self = "PanelReview" /\ event = "Settle" -> DisputeOk("Settled")
      [] self = "Adjudicated" /\ event = "Settle" -> DisputeOk("Settled")
      [] OTHER -> DisputeError

\* DisputeState::transition
DisputeState_transition(self, event) ==
    CASE self = "Filed" /\ event = "DepositBond" -> DisputeOk("BondDeposited")
      [] self = "BondDeposited" /\ event = "RunAlgorithm" ->
            DisputeOk("AlgorithmicResolution")
      [] self = "AlgorithmicResolution" /\ event = "RequestPanel" ->
            DisputeOk("PanelReview")
      [] self = "AlgorithmicResolution" /\ event = "Settle" -> DisputeOk("Settled")
      [] self = "PanelReview" /\ event = "Adjudicate" -> DisputeOk("Adjudicated")
      [] self = "Adjudicated" /\ event = "Settle" -> DisputeOk("Settled")
      [] OTHER -> DisputeError

\* Dispute::new
Dispute_new(bond_amount) ==
    [state |-> "Filed", bond_amount |-> bond_amount, resolution |-> None]

\* Dispute::apply_event: the dispute after the call and the result
Dispute_apply_event(self, event) ==
    LET r == DisputeState_transition(self.state, event) IN
    IF r.tag = "Ok"
    THEN [dispute |-> [self EXCEPT !.state = r.state], result |-> DisputeOk("()")]
    ELSE [dispute |-> self, result |-> r]

\* Faulty variant of Dispute::resolve: the state guard also admits PanelReview
Dispute_resolve_FromPanel(self, resolution) ==
    IF self.state \notin {"Adjudicated", "PanelReview"}
    THEN [dispute |-> self, result |-> DisputeError]
    ELSE LET resolved == [self EXCEPT !.resolution = Some(resolution)]
             r == DisputeState_transition(self.state, "Settle")
         IN IF r.tag = "Ok"
            THEN [dispute |-> [resolved EXCEPT !.state = r.state],
                  result |-> DisputeOk("()")]
            ELSE [dispute |-> resolved, result |-> r]

\* Faulty variant of Dispute::resolve: the state guard also admits Settled
Dispute_resolve_Again(self, resolution) ==
    IF self.state \notin {"Adjudicated", "Settled"}
    THEN [dispute |-> self, result |-> DisputeError]
    ELSE LET resolved == [self EXCEPT !.resolution = Some(resolution)]
             r == DisputeState_transition(self.state, "Settle")
         IN IF r.tag = "Ok"
            THEN [dispute |-> [resolved EXCEPT !.state = r.state],
                  result |-> DisputeOk("()")]
            ELSE [dispute |-> resolved, result |-> r]

\* Dispute::resolve
Dispute_resolve(self, resolution) ==
    IF self.state # "Adjudicated" THEN [dispute |-> self, result |-> DisputeError]
    ELSE LET resolved == [self EXCEPT !.resolution = Some(resolution)]
             r == DisputeState_transition(self.state, "Settle")
         IN IF r.tag = "Ok"
            THEN [dispute |-> [resolved EXCEPT !.state = r.state],
                  result |-> DisputeOk("()")]
            ELSE [dispute |-> resolved, result |-> r]

-----------------------------------------------------------------------------
(* SLO checker: src/src/monitoring/slo.rs; checkpoints:                    *)
(* panopticon-monitoring/src/checkpoint.rs                                 *)

Comparison == {"LessThan", "GreaterThan"}

\* struct SloDefinition
SloDefinition(metric_name, threshold, comparison, window_secs) ==
    [metric_name |-> metric_name, threshold |-> threshold, comparison |-> comparison,
     window_secs |-> window_secs]

\* struct Checkpoint, without status_message and metadata, which nothing reads
Checkpoint(task_id, agent_id, timestamp, progress_pct, resource_consumed) ==
    [task_id |-> task_id, agent_id |-> agent_id, timestamp |-> timestamp,
     progress_pct |-> progress_pct, resource_consumed |-> resource_consumed]

\* struct SloViolation
SloViolation(definition, actual_value, detected_at) ==
    [definition |-> definition, actual_value |-> actual_value,
     detected_at |-> detected_at]

\* a >= b on f64: false when either is NaN
F64Ge(a, b) == a # NaN /\ b # NaN /\ a >= b

\* the metric names SloChecker::check looks up
KnownMetrics == {"progress_pct", "resource_consumed"}

\* match def.metric_name.as_str() { .. }, for a known name
actual_value(def, checkpoint) ==
    IF def.metric_name = "progress_pct" THEN checkpoint.progress_pct
    ELSE checkpoint.resource_consumed

\* Faulty variant of SloChecker::check: strict comparisons
SloChecker_check_Strict(definitions, checkpoint, at) ==
    LET violated(def) ==
            /\ def.metric_name \in KnownMetrics
            /\ IF def.comparison = "LessThan"
               THEN F64Lt(def.threshold, actual_value(def, checkpoint))
               ELSE F64Lt(actual_value(def, checkpoint), def.threshold)
        hit == SelectSeq(definitions, violated)
    IN [i \in 1..Len(hit) |-> SloViolation(hit[i], actual_value(hit[i], checkpoint), at)]

\* SloChecker::check, called when Utc::now() is `at`: definitions with another
\* metric name are skipped (continue)
SloChecker_check(definitions, checkpoint, at) ==
    LET violated(def) ==
            /\ def.metric_name \in KnownMetrics
            /\ IF def.comparison = "LessThan"
               THEN F64Ge(actual_value(def, checkpoint), def.threshold)
               ELSE F64Le(actual_value(def, checkpoint), def.threshold)
        hit == SelectSeq(definitions, violated)
    IN [i \in 1..Len(hit) |-> SloViolation(hit[i], actual_value(hit[i], checkpoint), at)]

-----------------------------------------------------------------------------
(* Monitoring loop: panopticon-monitoring/src/monitor.rs                   *)

\* enum MonitoringEvent
CheckpointReceived(task_id, agent_id, progress_pct) ==
    [event |-> "CheckpointReceived", task_id |-> task_id, agent_id |-> agent_id,
     progress_pct |-> progress_pct]
SloViolationEvent(task_id, agent_id, violation) ==
    [event |-> "SloViolation", task_id |-> task_id, agent_id |-> agent_id,
     violation |-> violation]
AgentUnresponsive(agent_id, last_seen) ==
    [event |-> "AgentUnresponsive", agent_id |-> agent_id, last_seen |-> last_seen]

\* serde_json::to_value(&checkpoint) as it enters the hash input, folded to one symbol
CheckpointPayload(checkpoint) ==
    md5_like_hash(<<checkpoint.task_id, checkpoint.agent_id, checkpoint.timestamp,
                    JsonNumber(checkpoint.progress_pct),
                    JsonNumber(checkpoint.resource_consumed)>>)

\* Faulty variant of the entry of handle_checkpoint: actor and subject exchanged
checkpoint_entry_Swapped(id, timestamp, checkpoint, prev_hash) ==
    LedgerEntry_new(id, timestamp, "CheckpointRecorded", checkpoint.task_id,
                    checkpoint.agent_id, CheckpointPayload(checkpoint), prev_hash)

\* LedgerEntry::new(CheckpointRecorded, agent_id, task_id, payload, prev_hash) in
\* handle_checkpoint
checkpoint_entry(id, timestamp, checkpoint, prev_hash) ==
    LedgerEntry_new(id, timestamp, "CheckpointRecorded", checkpoint.agent_id,
                    checkpoint.task_id, CheckpointPayload(checkpoint), prev_hash)

\* the events handle_checkpoint sends for the violations found
ViolationEvents(checkpoint, violations) ==
    [i \in 1..Len(violations) |->
        SloViolationEvent(checkpoint.task_id, checkpoint.agent_id, violations[i])]

\* Faulty variant of the filter of check_heartbeats: an agent is reported from
\* the moment the timeout is reached
unresponsive_AtTimeout(heartbeats, at, timeout) ==
    {agent_id \in DOMAIN heartbeats : at - heartbeats[agent_id] >= timeout}

\* the filter of check_heartbeats: now - last_seen > timeout
unresponsive(heartbeats, at, timeout) ==
    {agent_id \in DOMAIN heartbeats : at - heartbeats[agent_id] > timeout}

\* the orders in which iterating a HashMap may yield the members of a key set
Orderings(keys) ==
    {order \in [1..Cardinality(keys) -> keys] :
        \A i, j \in 1..Cardinality(keys) : i # j => order[i] # order[j]}

\* nothing done by the loop yet
InitLoopHistory ==
    /\ mon_log = <<>>
    /\ mon_last = [op |-> "-"]
    /\ hb_last = [called |-> FALSE, at |-> 0, heartbeats |-> <<>>, order |-> <<>>,
                  refreshed |-> {}]
    /\ hb_refreshed = {}

\* MonitoringLoop::new with MonitoringConfig::default in clock ticks, empty
\* channels, watch::channel(false), nothing done yet
InitLoop ==
    /\ cp_chan = <<>>
    /\ cp_sent = 0
    /\ evt_chan = <<>>
    /\ evt_rx = "open"
    /\ shutdown = [value |-> FALSE, changed |-> FALSE]
    /\ agent_heartbeats = <<>>
    /\ mon_config = [heartbeat_timeout |-> 1, heartbeat_check_interval |-> 1]
    /\ mon_pc = "select"
    /\ mon_cp = None
    /\ mon_queue = <<>>
    /\ hb_next = 0
    /\ InitLoopHistory

\* SloChecker::new(vec![]), no check made
NoCheckpoint == Checkpoint(0, 0, 0, 0, 0)
InitSlo ==
    /\ slo_defs = <<>>
    /\ slo_cp = NoCheckpoint
    /\ slo_last = [called |-> FALSE, at |-> 0, violations |-> <<>>]

-----------------------------------------------------------------------------
(* Coordinator: src/src/coordination/coordinator.rs, with the triggers and  *)
(* plans of crates/panopticon-coordination. A String is the sequence of its *)
(* non-empty pieces.                                                        *)

\* a string literal or String argument of format!
Lit(s) == [str |-> s]

\* {:.2} of an f64, in hundredths
Fixed2(x) == IF x = NaN THEN Lit("NaN") ELSE [hundredths |-> (x * 100 + Scale \div 2) \div Scale]

\* {} of a Uuid
Display(id) == [uuid |-> id]

\* format!: the pieces in order; an empty piece adds nothing
Format(pieces) == SelectSeq(pieces, LAMBDA piece : piece # Lit(""))

\* enum ResponseAction
AdjustParameters(task_id, adjustments) ==
    [action |-> "AdjustParameters", task_id |-> task_id, adjustments |-> adjustments]
Redelegate(task_id, from_agent_id) ==
    [action |-> "Redelegate", task_id |-> task_id, from_agent_id |-> from_agent_id]
Redecompose(task_id) == [action |-> "Redecompose", task_id |-> task_id]
Escalate(task_id, reason) == [action |-> "Escalate", task_id |-> task_id, reason |-> reason]
Terminate(task_id, reason) == [action |-> "Terminate", task_id |-> task_id, reason |-> reason]

ResponsePlan_new(justification) == [actions |-> <<>>, justification |-> justification]
with_action(plan, action) == [plan EXCEPT !.actions = Append(@, action)]

\* Coordinator::handle_external
handle_external(t) ==
    CASE t.trigger = "TaskSpecChanged" ->
            with_action(
                ResponsePlan_new(Format(<<Lit("Task specification changed; redecompose to reflect new requirements")>>)),
                Redecompose(t.task_id))
      [] t.trigger = "ResourceFluctuation" ->
            with_action(
                ResponsePlan_new(Format(<<Lit("Resource '"), Lit(t.resource_name),
                                          Lit("' fluctuated by "), Fixed2(t.delta),
                                          Lit("; escalating for review")>>)),
                Escalate(None, Format(<<Lit("Resource fluctuation: "), Lit(t.resource_name),
                                        Lit(" delta="), Fixed2(t.delta)>>)))
      [] t.trigger = "PriorityChanged" ->
            with_action(
                ResponsePlan_new(Format(<<Lit("Priority changed to "), Fixed2(t.new_priority),
                                          Lit("; adjusting task parameters")>>)),
                AdjustParameters(t.task_id, [priority |-> JsonNumber(t.new_priority)]))
      [] t.trigger = "SecurityThreat" ->
            with_action(
                ResponsePlan_new(Format(<<Lit("Security threat from agent "), Display(t.agent_id),
                                          Lit(": "), Lit(t.description),
                                          Lit("; terminating and escalating")>>)),
                Escalate(None, Format(<<Lit("Security threat: "), Lit(t.description)>>)))

\* Coordinator::handle_internal
handle_internal(t) ==
    CASE t.trigger = "PerformanceDegraded" ->
            with_action(
                ResponsePlan_new(Format(<<Lit("Performance degraded for task "),
                                          Display(t.task_id), Lit(" on agent "),
                                          Display(t.agent_id), Lit(": "), Lit(t.metric),
                                          Lit(" = "), Fixed2(t.value), Lit("; redelegating")>>)),
                Redelegate(t.task_id, t.agent_id))
      [] t.trigger = "BudgetExceeded" ->
            with_action(
                ResponsePlan_new(Format(<<Lit("Budget exceeded for task "), Display(t.task_id),
                                          Lit(": consumed "), Fixed2(t.consumed),
                                          Lit(" / limit "), Fixed2(t.limit),
                                          Lit("; terminating")>>)),
                Terminate(t.task_id, Format(<<Lit("Budget exceeded: "), Fixed2(t.consumed),
                                              Lit(" / "), Fixed2(t.limit)>>)))
      [] t.trigger = "VerificationFailed" ->
            with_action(
                with_action(
                    ResponsePlan_new(Format(<<Lit("Verification failed for task "),
                                              Display(t.task_id), Lit(": "), Lit(t.reason),
                                              Lit("; redecomposing and escalating")>>)),
                    Redecompose(t.task_id)),
                Escalate(Some(t.task_id),
                         Format(<<Lit("Verification failed: "), Lit(t.reason)>>)))
      [] t.trigger = "AgentUnresponsive" ->
            with_action(
                ResponsePlan_new(Format(<<Lit("Agent "), Display(t.agent_id),
                                          Lit(" is unresponsive; escalating")>>)),
                Escalate(None, Format(<<Lit("Agent "), Display(t.agent_id),
                                        Lit(" unresponsive")>>)))

\* the arm of SecurityThreat also terminating, as its comment says
handle_trigger_TerminateOnThreat(t) ==
    IF t.origin = "External"
    THEN IF t.trigger = "SecurityThreat"
         THEN with_action(handle_external(t), Terminate(t.agent_id, Format(<<Lit("Security threat")>>)))
         ELSE handle_external(t)
    ELSE handle_internal(t)

\* Coordinator::handle_trigger
handle_trigger(t) ==
    IF t.origin = "External" THEN handle_external(t) ELSE handle_internal(t)

\* Coordinator::new on empty channels and watch::channel(false)
InitCoord ==
    /\ trig_chan = <<>>
    /\ trig_sent = 0
    /\ plan_chan = <<>>
    /\ plan_rx = "open"
    /\ co_shutdown = [value |-> FALSE, changed |-> FALSE]
    /\ co_pc = "select"
    /\ co_plan = None
    /\ co_consumed = <<>>
    /\ co_emitted = <<>>
    /\ co_received = <<>>

-----------------------------------------------------------------------------
(* Bid evaluation: src/src/assignment/bid.rs. Costs, scores and weights are *)
(* f64 in units of 1/Scale; a total_score, a sum of products of two of     *)
(* them, is in units of 1/Scale^2.                                          *)

Bid(agent_id, task_id, proposed_cost, proposed_duration_secs, confidence_score) ==
    [agent_id |-> agent_id, task_id |-> task_id, proposed_cost |-> proposed_cost,
     proposed_duration_secs |-> proposed_duration_secs,
     confidence_score |-> confidence_score]

BidEvaluator_new(cost_weight, quality_weight, confidence_weight) ==
    [cost_weight |-> cost_weight, quality_weight |-> quality_weight,
     confidence_weight |-> confidence_weight]

BidEvaluator_default == BidEvaluator_new(400, 400, 200)

\* a * b + c * d + e * f on f64
F64Dot3(a, b, c, d, e, f) ==
    IF NaN \in {a, b, c, d, e, f} THEN NaN ELSE a * b + c * d + e * f

\* the closure of map(): the ScoredBid of a bid that passed the filter
ScoredBid_of(self, b, max_cost, quality_predictor) ==
    LET cost_score == IF F64Lt(0, max_cost)
                      THEN Scale - (b.proposed_cost * Scale) \div max_cost
                      ELSE 0
        quality_score == quality_predictor[b.agent_id]
        confidence_component == b.confidence_score
    IN [bid |-> b,
        total_score |-> F64Dot3(self.cost_weight, cost_score,
                                self.quality_weight, quality_score,
                                self.confidence_weight, confidence_component),
        cost_score |-> cost_score,
        quality_score |-> quality_score,
        confidence_component |-> confidence_component]

\* the comparator of sort_by returns Less:
\* b.total_score.partial_cmp(&a.total_score).unwrap_or(Equal) == Less
is_less(a, b) == F64Lt(b.total_score, a.total_score)

\* insert_tail: x moves left past every element it is less than
RECURSIVE insert_tail(_, _)
insert_tail(v, x) ==
    IF v = <<>> THEN <<x>>
    ELSE IF is_less(x, v[Len(v)])
         THEN Append(insert_tail(SubSeq(v, 1, Len(v) - 1), x), v[Len(v)])
         ELSE Append(v, x)

\* slice::sort_by on a slice of at most 20 elements: insertion sort
RECURSIVE sort_by(_)
sort_by(v) ==
    IF v = <<>> THEN <<>>
    ELSE insert_tail(sort_by(SubSeq(v, 1, Len(v) - 1)), v[Len(v)])

\* BidEvaluator::evaluate
BidEvaluator_evaluate(self, bids, max_cost, quality_predictor) ==
    LET kept == SelectSeq(bids, LAMBDA b : F64Le(b.proposed_cost, max_cost))
        scored == [i \in 1..Len(kept) |->
                      ScoredBid_of(self, kept[i], max_cost, quality_predictor)]
    IN sort_by(scored)

\* no evaluation asked for
InitBid ==
    /\ bid_in = [self |-> BidEvaluator_default, bids |-> <<>>, max_cost |-> 0,
                 quality_predictor |-> <<>>]
    /\ bid_out = [called |-> FALSE, scored |-> <<>>]

-----------------------------------------------------------------------------
(* Decomposition: src/src/decomposition/strategy.rs and proposal.rs. Of a   *)
(* task the model keeps the id, the name and the four characteristics the   *)
(* strategies read.                                                         *)

VERIFIABILITY_THRESHOLD == 300

TaskCharacteristics(complexity, uncertainty, verifiability, interdependency) ==
    [complexity |-> complexity, uncertainty |-> uncertainty,
     verifiability |-> verifiability, interdependency |-> interdependency]

TaskCharacteristics_default ==
    TaskCharacteristics(Scale \div 2, Scale \div 2, Scale \div 2, Scale \div 2)

\* x * num / den on f64
F64Frac(x, num, den) == IF x = NaN THEN NaN ELSE (x * num) \div den

\* (x / unit).ceil() as usize: NaN and negative values cast to 0
CeilUsize(x, unit) == IF x = NaN \/ x < 0 THEN 0 ELSE (x + unit - 1) \div unit

UsizeMax(a, b) == IF a >= b THEN a ELSE b
UsizeMin(a, b) == IF a <= b THEN a ELSE b

\* compute_subtask_count
compute_subtask_count(chars, max) ==
    LET score == IF NaN \in {chars.complexity, chars.uncertainty, chars.interdependency}
                 THEN NaN
                 ELSE chars.complexity * 400 + chars.uncertainty * 300
                      + chars.interdependency * 300
    IN UsizeMin(UsizeMax(CeilUsize(IF score = NaN THEN NaN ELSE score * max,
                                   Scale * Scale), 2), max)

\* distribute_characteristics; index counts from 0
distribute_characteristics(parent, index, total) ==
    TaskCharacteristics(
        F64Frac(parent.complexity, 1, total),
        F64Frac(parent.uncertainty, 10 * total - 2 * index, 10 * total),
        F64Min(IF parent.verifiability = NaN THEN NaN
               ELSE parent.verifiability + Scale \div 10, Scale),
        F64Frac(parent.interdependency, 1, 2))

\* the k-th Uuid::new_v4() of a decompose call on a task: a fresh id
NewId(parent_task, k) == parent_task.id + k

\* Task::new(name, ..) with parent_id and characteristics set
Subtask(id, parent, name, characteristics) ==
    [id |-> id, parent_id |-> Some(parent.id), name |-> name,
     characteristics |-> characteristics]

SubtaskDependency(from, to) == [from |-> from, to |-> to]

\* DecompositionProposal::new with the fields the strategy sets
DecompositionProposal(parent_task, order, subtasks, dependencies, parallelism_factor) ==
    [parent_task_id |-> parent_task.id, subtasks |-> subtasks, dependencies |-> dependencies,
     execution_order |-> order, parallelism_factor |-> parallelism_factor]

\* SequentialStrategy::decompose
SequentialStrategy_decompose(self, parent_task) ==
    LET n == UsizeMin(UsizeMax(compute_subtask_count(parent_task.characteristics,
                                                     self.max_subtasks),
                               self.min_subtasks),
                      self.max_subtasks)
    IN DecompositionProposal(parent_task, "Sequential",
          [i \in 1..n |->
              Subtask(NewId(parent_task, i), parent_task,
                      Format(<<Lit(parent_task.name), Lit(" - step "), [usize |-> i]>>),
                      distribute_characteristics(parent_task.characteristics, i - 1, n))],
          [i \in 1..(n - 1) |-> SubtaskDependency(NewId(parent_task, i), NewId(parent_task, i + 1))],
          Scale)

\* ParallelStrategy::decompose
ParallelStrategy_decompose(self, parent_task) ==
    LET n == UsizeMax(compute_subtask_count(parent_task.characteristics, self.max_subtasks), 2)
    IN DecompositionProposal(parent_task, "Parallel",
          [i \in 1..n |->
              Subtask(NewId(parent_task, i), parent_task,
                      Format(<<Lit(parent_task.name), Lit(" - partition "), [usize |-> i]>>),
                      distribute_characteristics(parent_task.characteristics, i - 1, n))],
          <<>>,
          n * Scale)

\* the proposal of HybridStrategy::decompose, with or without the extra
\* verification step. Ids in the order the tasks are built: prep, the workers,
\* agg, verify.
hybrid_proposal(parent_task, low_verifiability) ==
    LET num_workers == UsizeMin(UsizeMax(CeilUsize(F64Frac(parent_task.characteristics.complexity,
                                                           4, 1), Scale), 2), 6)
        prep == Subtask(NewId(parent_task, 1), parent_task,
                        Format(<<Lit(parent_task.name), Lit(" - prepare")>>),
                        [parent_task.characteristics EXCEPT
                            !.complexity = F64Frac(@, 3, 10)])
        workers == [i \in 1..num_workers |->
                       Subtask(NewId(parent_task, 1 + i), parent_task,
                               Format(<<Lit(parent_task.name), Lit(" - worker "), [usize |-> i]>>),
                               distribute_characteristics(parent_task.characteristics, i - 1,
                                                          num_workers))]
        agg == Subtask(NewId(parent_task, num_workers + 2), parent_task,
                       Format(<<Lit(parent_task.name), Lit(" - aggregate")>>),
                       TaskCharacteristics_default)
        verify == Subtask(NewId(parent_task, num_workers + 3), parent_task,
                          Format(<<Lit(parent_task.name), Lit(" - extra verification")>>),
                          [TaskCharacteristics_default EXCEPT
                              !.verifiability = (8 * Scale) \div 10])
    IN DecompositionProposal(parent_task, "Hybrid",
          workers \o (IF low_verifiability THEN <<verify>> ELSE <<>>) \o <<prep, agg>>,
          [i \in 1..num_workers |-> SubtaskDependency(prep.id, workers[i].id)]
             \o [i \in 1..num_workers |-> SubtaskDependency(workers[i].id, agg.id)]
             \o (IF low_verifiability THEN <<SubtaskDependency(agg.id, verify.id)>>
                 ELSE <<>>),
          num_workers * Scale)

\* the extra step also for a task exactly at the threshold
HybridStrategy_decompose_AtThreshold(self, parent_task) ==
    hybrid_proposal(parent_task, F64Le(parent_task.characteristics.verifiability,
                                self.verifiability_threshold))

\* HybridStrategy::decompose
HybridStrategy_decompose(self, parent_task) ==
    hybrid_proposal(parent_task, F64Lt(parent_task.characteristics.verifiability,
                                self.verifiability_threshold))

\* <dyn DecompositionStrategy>::decompose
decompose(self, parent_task) ==
    CASE self.name = "sequential" -> SequentialStrategy_decompose(self, parent_task)
      [] self.name = "parallel" -> ParallelStrategy_decompose(self, parent_task)
      [] self.name = "hybrid" -> HybridStrategy_decompose(self, parent_task)

\* adj.entry(dep.from).or_default().push(dep.to), for every dependency
Adjacency(dependencies) ==
    [node \in {dependencies[i].from : i \in 1..Len(dependencies)} |->
        LET out == SelectSeq(dependencies, LAMBDA dep : dep.from = node)
        IN [i \in 1..Len(out) |-> out[i].to]]

\* fn dfs of is_acyclic, and its loop over the neighbours from the i-th on;
\* the result carries the two sets the code mutates
RECURSIVE dfs(_, _, _, _)
RECURSIVE dfs_neighbors(_, _, _, _, _)
dfs(node, adj, visited, stack) ==
    LET r == dfs_neighbors(IF node \in DOMAIN adj THEN adj[node] ELSE <<>>, 1, adj,
                           visited \cup {node}, stack \cup {node})
    IN IF r.ok THEN [r EXCEPT !.stack = @ \ {node}] ELSE r

dfs_neighbors(neighbors, i, adj, visited, stack) ==
    IF i > Len(neighbors) THEN [ok |-> TRUE, visited |-> visited, stack |-> stack]
    ELSE IF neighbors[i] \notin visited
         THEN LET r == dfs(neighbors[i], adj, visited, stack)
              IN IF r.ok THEN dfs_neighbors(neighbors, i + 1, adj, r.visited, r.stack)
                 ELSE r
         ELSE IF neighbors[i] \in stack
              THEN [ok |-> FALSE, visited |-> visited, stack |-> stack]
              ELSE dfs_neighbors(neighbors, i + 1, adj, visited, stack)

\* the loop of is_acyclic over the subtasks from the i-th on
RECURSIVE is_acyclic_from(_, _, _, _, _)
is_acyclic_from(subtasks, i, adj, visited, stack) ==
    IF i > Len(subtasks) THEN TRUE
    ELSE IF subtasks[i].id \in visited
         THEN is_acyclic_from(subtasks, i + 1, adj, visited, stack)
         ELSE LET r == dfs(subtasks[i].id, adj, visited, stack)
              IN r.ok /\ is_acyclic_from(subtasks, i + 1, adj, r.visited, r.stack)

\* DecompositionProposal::is_acyclic
is_acyclic(self) ==
    is_acyclic_from(self.subtasks, 1, Adjacency(self.dependencies), {}, {})

\* no decomposition asked for
InitDecomp ==
    /\ decomp_in = [strategy |-> [name |-> "-"], task |-> [id |-> 0]]
    /\ decomp_out = [called |-> FALSE, proposal |-> <<>>, acyclic |-> FALSE]

-----------------------------------------------------------------------------
(* The shared task map: Arc<DashMap<Uuid, Task>> of panopticon-server       *)
(* state.rs, as transition_task uses it                                     *)

\* the keys requests name: task 1, and an id no task has
TaskKeys == {1, 2}

Shards == {1, 2}

\* the write lock of a shard is taken without waiting, whoever holds it
write_lock_free_Unlocked(lock, shard) == TRUE

\* DashMap::get_mut can take the write lock of the key's shard
write_lock_free(lock, shard) == lock[shard] = 0

IdleRequest ==
    [pc |-> "idle", task_id |-> 0, event |-> "-", result |-> Ok("-"), response |-> "-",
     overlapped |-> FALSE]

\* AppState::new: an empty map, no request
InitReq ==
    /\ http_reqs = [r \in 1..MaxRequests |-> IdleRequest]
    /\ shard_lock = [shard \in Shards |-> 0]
    /\ shard_of = [k \in TaskKeys |-> 1]
    /\ assign_last = [request |-> 0, before |-> "-", event |-> "-", after |-> "-"]
    /\ ep_state = "Pending"

\* mpsc::channel and watch::channel: every sender is alive
InitSenders ==
    /\ cp_tx = "open"
    /\ mon_shutdown_tx = "open"
    /\ trig_tx = "open"
    /\ co_shutdown_tx = "open"

InitControl ==
    /\ InitSlo
    /\ InitLoop
    /\ InitCoord
    /\ InitBid
    /\ InitDecomp
    /\ InitReq
    /\ InitSenders

-----------------------------------------------------------------------------
(* Initial state *)

Writers == {"monitor", "reputation"}

\* No delegation chain in progress
InitPerm ==
    /\ perm = PermissionSet_default
    /\ att_depth = PermissionSet_default.max_delegation_depth
    /\ att_ok = 0
    /\ att_failed = FALSE
    /\ att_last = NoAttenuate

\* ReputationEngine::new: no scores, no call made
InitRep ==
    /\ scores = <<>>
    /\ rep_pc = [c \in 1..MaxCalls |-> "idle"]
    /\ rep_obs = [c \in 1..MaxCalls |-> NoObservation]
    /\ rep_new = [c \in 1..MaxCalls |-> to_reputation_score(AgentReputation_new)]
    /\ rep_prev = [c \in 1..MaxCalls |-> None]
    /\ rep_fault = [c \in 1..MaxCalls |-> "none"]
    /\ rep_entry = [c \in 1..MaxCalls |-> 0]
    /\ rep_result = [c \in 1..MaxCalls |-> NoResult]

\* an agent and a task as check_permission reads them
AgentOf(capabilities, allowed_actions, trust_level) ==
    [capabilities |-> capabilities,
     permissions |-> [allowed_actions |-> allowed_actions],
     trust_level |-> trust_level]
TaskOf(required_capabilities, criticality, reversibility) ==
    [required_capabilities |-> required_capabilities,
     characteristics |-> [criticality |-> criticality, reversibility |-> reversibility]]

\* No trust level computed, no permission checked
InitEval ==
    /\ trust_last = [composite |-> 0, level |-> "-", called |-> FALSE]
    /\ check_last = [agent |-> AgentOf(<<>>, <<>>, "Low"), a_task |-> TaskOf(<<>>, 0, 0),
                     result |-> CapabilityMismatch("-"), called |-> FALSE]

\* CircuitBreakerRegistry::new(3, 60, 0.3), with the cooldown in clock ticks
InitBreakers ==
    /\ breakers = <<>>
    /\ cb_config = [threshold |-> MaxThreshold, cooldown_secs |-> 1,
                    reputation_threshold |-> (3 * Scale) \div 10]
    /\ cb_pure = {}
    /\ cb_last = [op |-> "-", agent_id |-> 0, before |-> None, after |-> None,
                  at |-> 0, result |-> "-"]

\* Dispute::new(task, complainant, respondent, 100.0), no call made on it
InitDisputes ==
    /\ dispute = Dispute_new(100)
    /\ dispute_last = [op |-> "-", arg |-> "-", before |-> Dispute_new(100),
                       result |-> DisputeError]

InitPolicy ==
    /\ InitControl
    /\ InitPerm
    /\ InitRep
    /\ InitEval
    /\ InitBreakers
    /\ InitDisputes

InitCore ==
    /\ now = 0
    /\ task = Task_new(0)
    /\ task_events = <<>>
    /\ task_last = NoCall
    /\ tasks = <<>>
    /\ response = "-"
    /\ next_id = 0
    /\ w_pc = [w \in Writers |-> "idle"]
    /\ w_prev = [w \in Writers |-> None]
    /\ persisted = <<>>
    /\ loads = 0

InitCommon ==
    /\ InitCore
    /\ InitPolicy

\* AppState::new builds an InMemoryLedger (server state.rs:22, cli state.rs:29)
Init ==
    /\ ledger = InMemoryLedger_new
    /\ InitCommon

\* Either implementation behind Arc<dyn Ledger>
InitAnyLedger ==
    /\ ledger \in {InMemoryLedger_new, MerkleLedger_new}
    /\ InitCommon

-----------------------------------------------------------------------------
(* A single task driven by apply_event *)

Tick ==
    /\ now < MaxClock
    /\ now' = now + 1
    /\ UNCHANGED <<policyVars, taskVars, serverVars, ledgerVars, writerVars, fileVars>>

ApplyEvent(event) ==
    /\ Len(task_events) < MaxEvents
    /\ LET out == apply_event(task, event, now) IN
        /\ task' = out.task
        /\ task_last' = [event |-> event, before |-> task, at |-> now, result |-> out.result]
        /\ task_events' = IF out.result.tag = "Ok"
                          THEN Append(task_events, event) ELSE task_events
    /\ UNCHANGED <<policyVars, now, serverVars, ledgerVars, writerVars, fileVars>>

NextTask ==
    \/ Tick
    \/ \E event \in TaskEvent : ApplyEvent(event)

SpecTask == Init /\ [][NextTask]_vars

-----------------------------------------------------------------------------
(* The server's task handlers: panopticon-server/src/handlers.rs *)

\* create_task: a new Task under a fresh id; nothing is written to the ledger
CreateTask ==
    /\ Cardinality(DOMAIN tasks) < MaxTasks
    /\ LET id == Cardinality(DOMAIN tasks) + 1 IN
        /\ tasks' = Put(tasks, id, Task_new(now))
        /\ response' = "201 Created"
    /\ UNCHANGED <<policyVars, now, taskVars, ledgerVars, writerVars, fileVars>>

\* transition_task: 404 for an unknown id, 400 for a rejected event, else the task
\* is changed in place under the map's per-key lock; nothing is written to the ledger
TransitionTask(task_id, event) ==
    /\ IF task_id \notin DOMAIN tasks
       THEN /\ response' = "404 Not Found"
            /\ tasks' = tasks
       ELSE LET out == apply_event(tasks[task_id], event, now) IN
            IF out.result.tag = "Ok"
            THEN /\ tasks' = [tasks EXCEPT ![task_id] = out.task]
                 /\ response' = "200 OK"
            ELSE /\ tasks' = [tasks EXCEPT ![task_id] = out.task]
                 /\ response' = "400 Bad Request"
    /\ UNCHANGED <<policyVars, now, taskVars, ledgerVars, writerVars, fileVars>>

NextServer ==
    \/ Tick
    \/ CreateTask
    \/ \E task_id \in 1..MaxTasks, event \in TaskEvent : TransitionTask(task_id, event)

SpecServer == Init /\ [][NextServer]_vars

-----------------------------------------------------------------------------
(* Ledger writers: MonitoringLoop::handle_checkpoint (monitor.rs:136-148)  *)
(* and ReputationEngine::update_reputation (engine.rs:60-84). Each awaits  *)
(* latest_hash(), builds the entry, then awaits append().                  *)

WriterKind(w) ==
    IF w = "monitor" THEN "CheckpointRecorded" ELSE "ReputationUpdated"

\* the writers between their latest_hash() and their append()
InFlight == {w \in Writers : w_pc[w] = "hashed"}

\* let prev_hash = self.ledger.latest_hash().await
WriterLatestHash(w) ==
    /\ w_pc[w] = "idle"
    /\ Len(ledger.entries) + Cardinality(InFlight) < MaxEntries
    /\ w_prev' = [w_prev EXCEPT ![w] = latest_hash(ledger)]
    /\ w_pc' = [w_pc EXCEPT ![w] = "hashed"]
    /\ UNCHANGED <<policyVars, now, taskVars, serverVars, ledgerVars, fileVars>>

\* LedgerEntry::new(kind, actor, subject, payload, prev_hash); ledger.append(entry).await
WriterAppend(w, actor_id, subject_id, payload) ==
    /\ w_pc[w] = "hashed"
    /\ LET entry == LedgerEntry_new(next_id + 1, now, WriterKind(w), actor_id,
                                    subject_id, payload, w_prev[w]) IN
        ledger' = Ledger_append(ledger, entry)
    /\ next_id' = next_id + 1
    /\ w_pc' = [w_pc EXCEPT ![w] = "idle"]
    /\ w_prev' = [w_prev EXCEPT ![w] = None]
    /\ UNCHANGED <<policyVars, now, taskVars, serverVars, fileVars>>

\* one writer alone on the ledger
NextChain ==
    \/ WriterLatestHash("monitor")
    \/ \E a \in Actors, s \in Subjects, p \in Payloads : WriterAppend("monitor", a, s, p)

SpecChain == InitAnyLedger /\ [][NextChain]_vars

\* the monitoring loop and the reputation engine sharing one ledger
NextConc ==
    \/ \E w \in Writers : WriterLatestHash(w)
    \/ \E w \in Writers, a \in Actors, s \in Subjects, p \in Payloads :
          WriterAppend(w, a, s, p)

SpecConc == InitAnyLedger /\ [][NextConc]_vars

-----------------------------------------------------------------------------
(* Any caller of the Ledger trait: entries built with any previous_hash,   *)
(* or copied from a stored entry and altered (the fields are public).      *)

\* the previous_hash values a caller may pass
PrevChoices == {None, latest_hash(ledger), Some(0)}

AppendNew(kind, actor_id, subject_id, payload, previous_hash) ==
    /\ Len(ledger.entries) < MaxEntries
    /\ ledger' = Ledger_append(ledger,
                    LedgerEntry_new(next_id + 1, now, kind, actor_id, subject_id,
                                    payload, previous_hash))
    /\ next_id' = next_id + 1
    /\ UNCHANGED <<policyVars, now, taskVars, serverVars, writerVars, fileVars>>

\* append(e) for a clone of stored entry i with another payload: the same id again
AppendCopy(i, payload) ==
    /\ Len(ledger.entries) < MaxEntries
    /\ i \in 1..Len(ledger.entries)
    /\ payload # ledger.entries[i].payload
    /\ ledger' = Ledger_append(ledger, [ledger.entries[i] EXCEPT !.payload = payload])
    /\ UNCHANGED <<policyVars, now, taskVars, serverVars, writerVars, fileVars, next_id>>

NextAppend ==
    \/ \E s \in Subjects, p \in Payloads, h \in PrevChoices :
          AppendNew("TaskCreated", 1, s, p, h)
    \/ \E i \in 1..MaxEntries, p \in Payloads : AppendCopy(i, p)

SpecAppend == InitAnyLedger /\ [][NextAppend]_vars

-----------------------------------------------------------------------------
(* Saving and loading the state file: src/src/cli/state.rs *)

\* AppState::save_to: ledger.all_entries() goes to PersistedState.ledger_entries
SaveTo ==
    /\ InFlight = {}
    /\ persisted' = ledger.entries
    /\ UNCHANGED <<policyVars, now, taskVars, serverVars, ledgerVars, writerVars, loads>>

\* the state file edited outside the program, between a save and the next load:
\* one field of one entry replaced
Tamper(i, field, value) ==
    /\ loads < MaxLoads
    /\ persisted = ledger.entries
    /\ i \in 1..Len(persisted)
    /\ persisted[i][field] # value
    /\ persisted' = [persisted EXCEPT ![i][field] = value]
    /\ UNCHANGED <<policyVars, now, taskVars, serverVars, ledgerVars, writerVars, loads>>

\* the replay loop of load_from: append each persisted entry to the ledger
RECURSIVE Replay(_, _, _)
Replay(self, list, i) ==
    IF i > Len(list) THEN self
    ELSE Replay(InMemoryLedger_append(self, list[i]), list, i + 1)

\* AppState::load_from: a new InMemoryLedger, the persisted entries replayed into it
LoadFrom ==
    /\ loads < MaxLoads
    /\ InFlight = {}
    /\ ledger' = Replay(InMemoryLedger_new, persisted, 1)
    /\ loads' = loads + 1
    /\ UNCHANGED <<policyVars, now, taskVars, serverVars, writerVars, persisted, next_id>>

NextLoad ==
    \/ WriterLatestHash("reputation")
    \/ \E a \in Actors, s \in Subjects, p \in Payloads :
          WriterAppend("reputation", a, s, p)
    \/ SaveTo
    \/ \E i \in 1..MaxEntries :
          \/ \E p \in Payloads : Tamper(i, "payload", p)
          \/ \E s \in Subjects : Tamper(i, "subject_id", s)
          \/ \E h \in {None, Some(0)} : Tamper(i, "previous_hash", h)
    \/ LoadFrom

SpecLoad == Init /\ [][NextLoad]_vars

-----------------------------------------------------------------------------
(* Claims about the task state machine, checked under SpecTask *)

\* The transition table of the specification, section 4.1: <<state, event, target>>
TransitionTable ==
    { <<"Pending", "StartDecomposition", "Decomposing">>,
      <<"Pending", "SkipDecomposition", "AwaitingAssignment">>,
      <<"Decomposing", "DecompositionComplete", "AwaitingAssignment">>,
      <<"AwaitingAssignment", "StartNegotiation", "Negotiating">>,
      <<"Negotiating", "NegotiationComplete", "Contracted">>,
      <<"Contracted", "StartExecution", "InProgress">>,
      <<"InProgress", "ExecutionComplete", "AwaitingVerification">>,
      <<"InProgress", "TaskFailed", "Failed">>,
      <<"AwaitingVerification", "VerificationPassed", "Completed">>,
      <<"AwaitingVerification", "VerificationFailed", "Failed">>,
      <<"AwaitingVerification", "DisputeRaised", "Disputed">>,
      <<"Disputed", "DisputeResolved", "Completed">>,
      <<"Disputed", "TaskFailed", "Failed">>,
      <<"Failed", "Retry", "Pending">> }

Called == task_last.event # "-"

\* C1: every apply_event call returns Ok(target) exactly for the 14 pairs of the
\* transition table, with the listed target, and InvalidStateTransition{from, event}
\* carrying the state and the event of the call for every other pair; no pair with
\* event ContractSigned or state Completed is in the table.
C1_TransitionTable ==
    /\ Cardinality(TransitionTable) = 14
    /\ \A tr \in TransitionTable : tr[2] # "ContractSigned" /\ tr[1] # "Completed"
    /\ Called =>
         LET from == task_last.before.state
             event == task_last.event
             rows == {tr \in TransitionTable : tr[1] = from /\ tr[2] = event}
         IN  /\ from \in TaskState /\ event \in TaskEvent
             /\ Cardinality(rows) <= 1
             /\ \A tr \in rows : task_last.result = Ok(tr[3])
             /\ rows = {} => task_last.result = InvalidStateTransition(from, event)

\* C1 witness: ContractSigned was offered to a Negotiating task and rejected
C1_Witness ==
    /\ Called
    /\ task_last.before.state = "Negotiating"
    /\ task_last.event = "ContractSigned"
    /\ task_last.result.tag = "InvalidStateTransition"

\* event a occurs in the accepted history strictly before event b
Then(a, b) ==
    \E i, j \in 1..Len(task_events) :
        i < j /\ task_events[i] = a /\ task_events[j] = b

\* event a is accepted and event b is the very next accepted event
ThenNext(a, b) ==
    \E i \in 1..Len(task_events) :
        i < Len(task_events) /\ task_events[i] = a /\ task_events[i + 1] = b

\* C2: a task started in Pending is Completed after a sequence of accepted events
\* if and only if the sequence contains ExecutionComplete followed by
\* VerificationPassed, or DisputeRaised followed by DisputeResolved (whether
\* "followed by" is read as "directly" or as "later").
C2_CompletedIff ==
    /\ task.state = "Completed" =>
         \/ ThenNext("ExecutionComplete", "VerificationPassed")
         \/ ThenNext("DisputeRaised", "DisputeResolved")
    /\ ( \/ Then("ExecutionComplete", "VerificationPassed")
         \/ Then("DisputeRaised", "DisputeResolved") ) => task.state = "Completed"

\* C2 witness: a task completed through a dispute, on a retry after a failure
C2_Witness ==
    /\ task.state = "Completed"
    /\ Then("Retry", "DisputeRaised")
    /\ ThenNext("DisputeRaised", "DisputeResolved")

\* C3: a rejected apply_event leaves the task as it was (state and updated_at); an
\* accepted one sets updated_at to the time of the call, and nothing else moves it.
C3_RejectedUnchanged ==
    /\ Called /\ task_last.result.tag = "InvalidStateTransition" =>
         task = task_last.before
    /\ Called /\ task_last.result.tag = "Ok" =>
         /\ task.state = task_last.result.state
         /\ task.updated_at = task_last.at
    /\ ~Called => task = Task_new(0)
    /\ task.created_at <= task.updated_at

\* C3 witness: an event was rejected at a time later than the task's updated_at
C3_Witness ==
    /\ Called
    /\ task_last.result.tag = "InvalidStateTransition"
    /\ task_last.at > task.updated_at
    /\ task.updated_at > task.created_at

\* C4 as stated: no apply_event call on a Completed or Failed task changes its state
C4_TerminalImmutable ==
    Called /\ task_last.before.state \in {"Completed", "Failed"} =>
        task.state = task_last.before.state

\* C4 amended: no apply_event call on a Completed task changes the task; a call on a
\* Failed task changes it only when the event is Retry, and then to Pending.
C4_CompletedImmutable ==
    /\ Called /\ task_last.before.state = "Completed" =>
         /\ task = task_last.before
         /\ task_last.result.tag = "InvalidStateTransition"
    /\ Called /\ task_last.before.state = "Failed" =>
         IF task_last.event = "Retry"
         THEN task.state = "Pending"
         ELSE task = task_last.before

\* C4 witness: Retry was offered to a Completed task
C4_Witness ==
    /\ Called
    /\ task_last.before.state = "Completed"
    /\ task_last.event = "Retry"
    /\ task.state = "Completed"

-----------------------------------------------------------------------------
(* Claims about the ledger *)

\* the TaskStateChanged entries the ledger holds for a task
StateChangeEntries(task_id) ==
    LET found == InMemoryLedger_query_by_subject(ledger, task_id) IN
    {k \in 1..Len(found) : found[k].kind = "TaskStateChanged"}

\* C5: once a task has been driven from Pending to Completed through
\* transition_task (six state changes at least), the ledger holds a
\* TaskStateChanged entry with subject = the task for each state change.
C5_StateChangesAudited ==
    \A task_id \in DOMAIN tasks :
        tasks[task_id].state = "Completed" =>
            Cardinality(StateChangeEntries(task_id)) >= 6

\* the chain invariant of the specification: entry 0 has no previous hash, every
\* later entry's previous_hash is the hash of the entry before it
ChainLinked(list) ==
    \A i \in 1..Len(list) :
        IF i = 1 THEN list[i].previous_hash = None
        ELSE list[i].previous_hash = Some(list[i - 1].hash)

\* C6: with one writer that passes latest_hash(), read right before the append, as
\* previous_hash, after any number of appends verify_integrity() is true, entry 0
\* has no previous_hash and every later entry's previous_hash is the hash of the
\* entry before it.
C6_SingleWriterChain ==
    /\ Ledger_verify_integrity(ledger)
    /\ Len(ledger.entries) > 0 => ledger.entries[1].previous_hash = None
    /\ \A i \in 2..Len(ledger.entries) :
          ledger.entries[i].previous_hash = Some(ledger.entries[i - 1].hash)

\* C6 witness: an InMemoryLedger after three chained appends
C6_Witness ==
    /\ ledger.impl = "InMemory"
    /\ Len(ledger.entries) >= 3
    /\ ledger.entries[3].previous_hash = Some(ledger.entries[2].hash)

\* C7: with the monitoring loop and the reputation engine writing to one ledger,
\* every entry's previous_hash is the hash of the entry directly before it and
\* verify_integrity() is true, in every reachable state.
C7_ConcurrentChain ==
    /\ Ledger_verify_integrity(ledger)
    /\ ChainLinked(ledger.entries)

\* the stored hash is not the fingerprint of the entry's fields
HashMismatch(entry) ==
    entry.hash # md5_like_hash(hash_input(entry.id, entry.timestamp, entry.kind,
                                          entry.actor_id, entry.subject_id,
                                          entry.payload, entry.previous_hash))

\* C8: if a hashed field of a stored entry differs from the value its hash was
\* computed over, verify_integrity() is false.
C8_TamperEvident ==
    (\E i \in 1..Len(ledger.entries) : HashMismatch(ledger.entries[i]))
        => ~Ledger_verify_integrity(ledger)

\* C9: verify_integrity of every implementation is true only if the chain is
\* linked: entry 0 without previous_hash, each later previous_hash equal to the
\* hash of the entry before.
C9_VerifyChecksChain ==
    Ledger_verify_integrity(ledger) => ChainLinked(ledger.entries)

\* C10: get(e.id) is Some(e) once e is appended, and stays so while the entries
\* appended after e have other ids; get of an id never appended is None.
C10_GetAfterAppend ==
    /\ \A i \in 1..Len(ledger.entries) :
          (\A j \in (i + 1)..Len(ledger.entries) :
              ledger.entries[j].id # ledger.entries[i].id)
          => Ledger_get(ledger, ledger.entries[i].id) = Some(ledger.entries[i])
    /\ \A id \in 1..(next_id + 1) :
          (\A i \in 1..Len(ledger.entries) : ledger.entries[i].id # id)
          => Ledger_get(ledger, id) = None

-----------------------------------------------------------------------------
(* A delegation chain: attenuate applied to its own result *)

\* The chain may start from any permission set
InitAttenuate ==
    /\ ledger = InMemoryLedger_new
    /\ InitCore
    /\ InitControl
    /\ InitRep
    /\ InitEval
    /\ InitBreakers
    /\ InitDisputes
    /\ perm \in PermissionSet(0..MaxDepth)
    /\ att_depth = perm.max_delegation_depth
    /\ att_ok = 0
    /\ att_failed = FALSE
    /\ att_last = NoAttenuate

\* A child may request any depth, also one above the parent's
RequestedDepths == {0, MaxDepth + 1}

\* let child = attenuate(&parent, &requested); the child is the next parent
Attenuate(requested) ==
    /\ att_ok <= MaxDepth
    /\ LET r == attenuate(perm, requested) IN
          /\ att_last' = [parent |-> perm, requested |-> requested,
                          result |-> r, called |-> TRUE]
          /\ perm' = IF r.tag = "Ok" THEN r.value[1] ELSE perm
          /\ att_ok' = IF r.tag = "Ok" THEN att_ok + 1 ELSE att_ok
          /\ att_failed' = (att_failed \/ r.tag # "Ok")
    /\ UNCHANGED <<now, taskVars, serverVars, ledgerVars, writerVars, fileVars, controlVars,
                   att_depth, repVars, evalVars, cbVars, disputeVars>>

NextAttenuate ==
    \E requested \in PermissionSet(RequestedDepths) : Attenuate(requested)

SpecAttenuate == InitAttenuate /\ [][NextAttenuate]_vars

-----------------------------------------------------------------------------
(* Claims about attenuation, checked under SpecAttenuate *)

Elems(vec) == {vec[i] : i \in 1..Len(vec)}

\* what C11 says of a successful result c of attenuate(parent, requested)
AttenuatedAs(c, parent, requested, budget) ==
    /\ is_subset_of(c, parent)
    /\ Elems(c.allowed_actions)
          = Elems(parent.allowed_actions) \cap Elems(requested.allowed_actions)
    /\ Elems(c.allowed_data_classifications)
          = Elems(parent.allowed_data_classifications)
               \cap Elems(requested.allowed_data_classifications)
    /\ c.max_cost_budget = budget
    /\ c.max_delegation_depth = parent.max_delegation_depth - 1

\* C11 as stated: for every parent with max_delegation_depth > 0 and every
\* requested set, attenuate succeeds with a subset of parent whose action and
\* classification lists are the intersections, whose budget is the minimum of
\* the two and whose depth is parent's minus one.
C11_AttenuateSucceeds ==
    (att_last.called /\ att_last.parent.max_delegation_depth > 0)
    => /\ att_last.result.tag = "Ok"
       /\ LET c == att_last.result.value[1]
              a == att_last.parent.max_cost_budget
              b == att_last.requested.max_cost_budget
          IN /\ c.max_cost_budget \in {a, b}
             /\ F64Le(c.max_cost_budget, a)
             /\ F64Le(c.max_cost_budget, b)
             /\ AttenuatedAs(c, att_last.parent, att_last.requested,
                             c.max_cost_budget)

\* C11 (amended): for every parent with max_delegation_depth > 0 whose budget is
\* not NaN, attenuate succeeds with a subset of parent: intersections of the
\* lists, depth parent's minus one, budget the minimum of the two (parent's when
\* the requested budget is NaN). With a NaN parent budget attenuate fails with
\* PermissionDenied.
C11_AttenuateSubset ==
    (att_last.called /\ att_last.parent.max_delegation_depth > 0)
    => LET a == att_last.parent.max_cost_budget
           b == att_last.requested.max_cost_budget
       IN IF a = NaN
          THEN att_last.result = PermissionDenied
          ELSE /\ att_last.result.tag = "Ok"
               /\ AttenuatedAs(att_last.result.value[1], att_last.parent,
                               att_last.requested,
                               IF b = NaN \/ a <= b THEN a ELSE b)

\* a successful call that cut the actions, the budget and the requested depth
C11_Witness ==
    /\ att_last.called
    /\ att_last.result.tag = "Ok"
    /\ att_last.parent.max_delegation_depth = MaxDepth
    /\ att_last.requested.max_delegation_depth > MaxDepth
    /\ att_last.requested.allowed_actions = <<"read", "write">>
    /\ att_last.result.value[1].allowed_actions = <<"read">>
    /\ att_last.requested.max_cost_budget = 1
    /\ att_last.parent.max_cost_budget = 2
    /\ att_last.result.value[1].max_cost_budget = 1

\* C12 as stated: a chain started at depth d succeeds exactly d times, with
\* depths d-1, ..., 0, and every further call fails with PermissionDenied.
C12_ChainBounded ==
    /\ att_ok <= att_depth
    /\ perm.max_delegation_depth = att_depth - att_ok
    /\ att_failed => (att_ok = att_depth /\ att_last.result = PermissionDenied)

\* C12 (amended): a chain started at depth d from a set whose budget is not NaN
\* succeeds exactly d times, with depths d-1, ..., 0, and every further call
\* fails with PermissionDenied; from a set whose budget is NaN every call fails.
C12_ChainBoundedNumeric ==
    /\ att_ok <= att_depth
    /\ perm.max_delegation_depth = att_depth - att_ok
    /\ att_failed => att_last.result = PermissionDenied
    /\ (att_failed /\ perm.max_cost_budget # NaN) => att_ok = att_depth
    /\ perm.max_cost_budget = NaN => att_ok = 0
    /\ (att_last.called /\ ~att_failed) => att_last.result.tag = "Ok"

\* the chain used up its whole depth and the next call was refused
C12_Witness ==
    /\ att_depth = MaxDepth
    /\ att_ok = MaxDepth
    /\ att_failed
    /\ perm.max_delegation_depth = 0
    /\ att_last.parent = perm

-----------------------------------------------------------------------------
(* ReputationEngine::update_reputation, step by step: the map operations    *)
(* each take the shard lock on their own, the ledger calls are awaits       *)

\* task ids are Uuid::new_v4() values, distinct from the agent ids
TaskIds == Subjects \ Actors

\* the observations of sequential callers: any dimension, any f64 value
ObservationsAny ==
    [agent_id : Actors, task_id : TaskIds, dimension : ReputationDimension,
     value : {NaN, 0 - Scale, Scale \div 4, 2 * Scale}]

\* the observations of concurrent callers
ObservationsInRange ==
    [agent_id : Actors, task_id : TaskIds, dimension : {"Completion", "Quality"},
     value : {Scale \div 4}]

RepInFlight == {c \in 1..MaxCalls : rep_pc[c] \notin {"idle", "returned"}}

\* update_reputation(observation) is called
RepCall(c, obs) ==
    /\ rep_pc[c] = "idle"
    /\ \A k \in 1..(c - 1) : rep_pc[k] # "idle"
    /\ rep_pc' = [rep_pc EXCEPT ![c] = "contains_key"]
    /\ rep_obs' = [rep_obs EXCEPT ![c] = obs]
    /\ UNCHANGED <<now, taskVars, serverVars, ledgerVars, writerVars, fileVars, controlVars,
                   permVars, evalVars, cbVars, disputeVars, scores, rep_new, rep_prev, rep_fault, rep_entry,
                   rep_result>>

\* a caller that awaits each call before the next (cli execute.rs:261-293)
RepCallAlone(c, obs) ==
    /\ RepInFlight = {}
    /\ RepCall(c, obs)

\* if !self.scores.contains_key(&agent_id)
RepContainsKey(c) ==
    /\ rep_pc[c] = "contains_key"
    /\ rep_pc' = [rep_pc EXCEPT ![c] =
                     IF rep_obs[c].agent_id \in DOMAIN scores THEN "get_mut"
                     ELSE "insert"]
    /\ UNCHANGED <<now, taskVars, serverVars, ledgerVars, writerVars, fileVars, controlVars,
                   permVars, evalVars, cbVars, disputeVars, scores, rep_obs, rep_new, rep_prev, rep_fault,
                   rep_entry, rep_result>>

\* self.scores.insert(agent_id, AgentReputation::new(agent_id))
RepInsert(c) ==
    /\ rep_pc[c] = "insert"
    /\ scores' = Put(scores, rep_obs[c].agent_id, AgentReputation_new)
    /\ rep_pc' = [rep_pc EXCEPT ![c] = "get_mut"]
    /\ UNCHANGED <<now, taskVars, serverVars, ledgerVars, writerVars, fileVars, controlVars,
                   permVars, evalVars, cbVars, disputeVars, rep_obs, rep_new, rep_prev, rep_fault, rep_entry,
                   rep_result>>

\* let new_score = { let mut rep = self.scores.get_mut(&agent_id)...; ... }
RepGetMut(c) ==
    /\ rep_pc[c] = "get_mut"
    /\ LET agent_id == rep_obs[c].agent_id
           rep == apply_observation(scores[agent_id], rep_obs[c].dimension,
                                    clamp01(rep_obs[c].value))
       IN /\ scores' = Put(scores, agent_id, rep)
          /\ rep_new' = [rep_new EXCEPT ![c] = to_reputation_score(rep)]
    /\ rep_pc' = [rep_pc EXCEPT ![c] = "latest_hash"]
    /\ UNCHANGED <<now, taskVars, serverVars, ledgerVars, writerVars, fileVars, controlVars,
                   permVars, evalVars, cbVars, disputeVars, rep_obs, rep_prev, rep_fault, rep_entry, rep_result>>

\* self.ledger.latest_hash().await.map_err(LedgerError)?
RepLatestHash(c, ok) ==
    /\ rep_pc[c] = "latest_hash"
    /\ IF ok
       THEN /\ rep_prev' = [rep_prev EXCEPT ![c] = latest_hash(ledger)]
            /\ rep_pc' = [rep_pc EXCEPT ![c] = "append"]
            /\ UNCHANGED <<rep_fault, rep_result>>
       ELSE /\ rep_fault' = [rep_fault EXCEPT ![c] = "latest_hash"]
            /\ rep_result' = [rep_result EXCEPT ![c] = LedgerError]
            /\ rep_pc' = [rep_pc EXCEPT ![c] = "returned"]
            /\ UNCHANGED rep_prev
    /\ UNCHANGED <<now, taskVars, serverVars, ledgerVars, writerVars, fileVars, controlVars,
                   permVars, evalVars, cbVars, disputeVars, scores, rep_obs, rep_new, rep_entry>>

\* LedgerEntry::new(..); self.ledger.append(entry).await.map_err(LedgerError)?;
\* Ok(new_score)
RepAppend(c, ok) ==
    /\ rep_pc[c] = "append"
    /\ IF ok
       THEN /\ ledger' = Ledger_append(ledger,
                            reputation_entry(next_id + 1, now, rep_obs[c],
                                             rep_new[c], rep_prev[c]))
            /\ rep_entry' = [rep_entry EXCEPT ![c] = next_id + 1]
            /\ rep_result' = [rep_result EXCEPT ![c] = RepOk(rep_new[c])]
            /\ UNCHANGED rep_fault
       ELSE /\ rep_fault' = [rep_fault EXCEPT ![c] = "append"]
            /\ rep_result' = [rep_result EXCEPT ![c] = LedgerError]
            /\ UNCHANGED <<ledger, rep_entry>>
    /\ next_id' = next_id + 1
    /\ rep_pc' = [rep_pc EXCEPT ![c] = "returned"]
    /\ UNCHANGED <<now, taskVars, serverVars, writerVars, fileVars, controlVars, permVars, evalVars, cbVars, disputeVars,
                   scores, rep_obs, rep_new, rep_prev>>

RepSteps(c) ==
    \/ RepContainsKey(c)
    \/ RepInsert(c)
    \/ RepGetMut(c)
    \/ \E ok \in BOOLEAN : RepLatestHash(c, ok)
    \/ \E ok \in BOOLEAN : RepAppend(c, ok)

\* calls made one after the other
NextRepSeq ==
    \E c \in 1..MaxCalls :
        \/ \E obs \in ObservationsAny : RepCallAlone(c, obs)
        \/ RepSteps(c)

SpecRepSeq == Init /\ [][NextRepSeq]_vars

\* calls made from several runtime threads at once
NextRep ==
    \E c \in 1..MaxCalls :
        \/ \E obs \in ObservationsInRange : RepCall(c, obs)
        \/ RepSteps(c)

SpecRep == Init /\ [][NextRep]_vars

-----------------------------------------------------------------------------
(* Claims about the reputation engine *)

\* the calls whose observation has gone through the get_mut block
Applied == {c \in 1..MaxCalls : rep_pc[c] \in {"latest_hash", "append", "returned"}}

\* C13: after any sequence of update_reputation calls with any observed values,
\* every dimension score of every agent is in [0,1]; the first observation on a
\* fresh agent sets the updated dimension to the clamped observed value and
\* leaves the other four dimensions at 0.5.
C13_ScoresBounded ==
    \A a \in DOMAIN scores :
        /\ \A d \in ReputationDimension :
              scores[a].dims[d].score \in 0..Scale
        /\ (scores[a].total_tasks = 1 /\ 1 \in Applied)
           => \A d \in ReputationDimension :
                 scores[a].dims[d].score =
                    IF d = rep_obs[1].dimension THEN clamp01(rep_obs[1].value)
                    ELSE Scale \div 2

\* C14: once k concurrent update_reputation calls on the same agent have all
\* completed, the agent's total_tasks is k and each observation is counted on
\* its dimension: no update is lost to a freshly inserted default record.
C14_UpdatesSerialized ==
    (\A c \in 1..MaxCalls : rep_pc[c] = "returned")
    => \A a \in Actors :
          /\ a \in DOMAIN scores
          /\ scores[a].total_tasks
                = Cardinality({c \in 1..MaxCalls : rep_obs[c].agent_id = a})
          /\ \A d \in ReputationDimension :
                scores[a].dims[d].observations
                   = Cardinality({c \in 1..MaxCalls :
                                     rep_obs[c].agent_id = a /\ rep_obs[c].dimension = d})

\* C15: a call that returns Ok has appended exactly one ReputationUpdated entry
\* with actor_id the agent and subject_id the task, and the ledger holds no
\* other entry; a call whose latest_hash or append failed returns LedgerError
\* and has appended nothing.
C15_OneEntryPerUpdate ==
    /\ \A c \in 1..MaxCalls :
          rep_pc[c] = "returned"
          => IF rep_fault[c] = "none"
             THEN /\ rep_result[c] = RepOk(rep_new[c])
                  /\ Cardinality({i \in 1..Len(ledger.entries) :
                                     ledger.entries[i].id = rep_entry[c]}) = 1
                  /\ \A i \in 1..Len(ledger.entries) :
                        ledger.entries[i].id = rep_entry[c]
                        => /\ ledger.entries[i].kind = "ReputationUpdated"
                           /\ ledger.entries[i].actor_id = rep_obs[c].agent_id
                           /\ ledger.entries[i].subject_id = rep_obs[c].task_id
             ELSE /\ rep_result[c] = LedgerError
                  /\ rep_entry[c] = 0
    /\ Len(ledger.entries)
          = Cardinality({c \in 1..MaxCalls : rep_result[c].tag = "Ok"})
    /\ \A c, k \in 1..MaxCalls :
          (c # k /\ rep_entry[c] # 0) => rep_entry[c] # rep_entry[k]

\* two calls returned, one Ok with its entry on the ledger, one LedgerError
C15_Witness ==
    /\ \E c \in 1..MaxCalls :
          /\ rep_pc[c] = "returned"
          /\ rep_result[c].tag = "Ok"
          /\ rep_obs[c].task_id = 2
          /\ \E i \in 1..Len(ledger.entries) :
                /\ ledger.entries[i].id = rep_entry[c]
                /\ ledger.entries[i].subject_id = 2
    /\ \E c \in 1..MaxCalls :
          /\ rep_pc[c] = "returned"
          /\ rep_fault[c] = "append"
          /\ rep_result[c] = LedgerError

-----------------------------------------------------------------------------
(* compute_trust_level and check_permission applied to any input *)

\* composites on and around the unit interval, and NaN
Composites == {NaN} \cup ((0 - Scale \div 10)..(Scale + Scale \div 10))

InitTrust ==
    /\ ledger = InMemoryLedger_new
    /\ InitCore
    /\ InitControl
    /\ InitPerm
    /\ InitRep
    /\ InitBreakers
    /\ InitDisputes
    /\ trust_last \in [composite : Composites, level : {"-"}, called : {FALSE}]
    /\ check_last = [agent |-> AgentOf(<<>>, <<>>, "Low"), a_task |-> TaskOf(<<>>, 0, 0),
                     result |-> CapabilityMismatch("-"), called |-> FALSE]

ComputeTrustLevel ==
    /\ ~trust_last.called
    /\ trust_last' = [trust_last EXCEPT
                         !.level = compute_trust_level(trust_last.composite),
                         !.called = TRUE]
    /\ UNCHANGED <<now, taskVars, serverVars, ledgerVars, writerVars, fileVars, controlVars,
                   permVars, repVars, cbVars, disputeVars, check_last>>

NextTrust == ComputeTrustLevel

SpecTrust == InitTrust /\ [][NextTrust]_vars

\* criticality and reversibility on and around the thresholds, and NaN
Characteristic ==
    {NaN, 0, (4 * Scale) \div 10 - 1, (4 * Scale) \div 10, (6 * Scale) \div 10 - 1,
     (6 * Scale) \div 10, (7 * Scale) \div 10 - 1, (7 * Scale) \div 10,
     (7 * Scale) \div 10 + 1, Scale}

CapabilityVecs == {<<>>, <<"read">>, <<"read", "write">>}

InitPermission ==
    /\ ledger = InMemoryLedger_new
    /\ InitCore
    /\ InitControl
    /\ InitPerm
    /\ InitRep
    /\ InitBreakers
    /\ InitDisputes
    /\ trust_last = [composite |-> 0, level |-> "-", called |-> FALSE]
    /\ \E capabilities \in CapabilityVecs, allowed_actions \in ActionVecs,
          trust_level \in {TrustLevel[i] : i \in 1..Len(TrustLevel)},
          required_capabilities \in CapabilityVecs,
          criticality \in Characteristic, reversibility \in Characteristic :
           check_last = [agent |-> AgentOf(capabilities, allowed_actions, trust_level),
                         a_task |-> TaskOf(required_capabilities, criticality,
                                           reversibility),
                         result |-> CapabilityMismatch("-"), called |-> FALSE]

CheckPermission ==
    /\ ~check_last.called
    /\ check_last' = [check_last EXCEPT
                         !.result = check_permission(check_last.agent,
                                                     check_last.a_task),
                         !.called = TRUE]
    /\ UNCHANGED <<now, taskVars, serverVars, ledgerVars, writerVars, fileVars, controlVars,
                   permVars, repVars, cbVars, disputeVars, trust_last>>

NextPermission == CheckPermission

SpecPermission == InitPermission /\ [][NextPermission]_vars

-----------------------------------------------------------------------------
(* Claims about trust levels and approval requirements *)

\* the position of a level in Untrusted < Low < Medium < High < Full
TrustRank(level) == CHOOSE i \in 1..Len(TrustLevel) : TrustLevel[i] = level

\* C16: compute_trust_level maps x < 0.2 to Untrusted, 0.2 <= x < 0.4 to Low,
\* 0.4 <= x < 0.6 to Medium, 0.6 <= x < 0.8 to High and x >= 0.8 to Full, a
\* threshold value going to the higher band, and is monotonic non-decreasing.
C16_TrustBands ==
    trust_last.called
    => LET x == trust_last.composite
           t2 == (2 * Scale) \div 10
           t4 == (4 * Scale) \div 10
           t6 == (6 * Scale) \div 10
           t8 == (8 * Scale) \div 10
       IN /\ F64Lt(x, t2) => trust_last.level = "Untrusted"
          /\ (F64Le(t2, x) /\ F64Lt(x, t4)) => trust_last.level = "Low"
          /\ (F64Le(t4, x) /\ F64Lt(x, t6)) => trust_last.level = "Medium"
          /\ (F64Le(t6, x) /\ F64Lt(x, t8)) => trust_last.level = "High"
          /\ F64Le(t8, x) => trust_last.level = "Full"
          /\ \A y \in Composites :
                F64Le(x, y)
                => TrustRank(trust_last.level) <= TrustRank(compute_trust_level(y))

\* a threshold value itself was mapped
C16_Witness ==
    /\ trust_last.called
    /\ trust_last.composite = (6 * Scale) \div 10
    /\ trust_last.level = "High"

\* C17: a successful check_permission on a task of criticality >= 0.7 returns
\* JustInTimePermission with 2 approvers and a human, whatever the reversibility
\* and the trust level; below 0.7, High trust lowers JustInTime to Contextual,
\* Full trust lowers JustInTime to Contextual and Contextual to Standing, and
\* Medium or lower trust leaves the base requirement.
C17_CriticalStaysJustInTime ==
    (check_last.called /\ check_last.result.tag = "Ok")
    => LET c == check_last.a_task.characteristics.criticality
           req == check_last.result.value[1]
           base == from_characteristics(check_last.a_task.characteristics)
           trust == check_last.agent.trust_level
       IN /\ F64Le((7 * Scale) \div 10, c) => req = JustInTime
          /\ F64Lt(c, (7 * Scale) \div 10)
             => req = (IF trust = "High"
                       THEN (IF base = JustInTime THEN Contextual ELSE base)
                       ELSE IF trust = "Full"
                       THEN (IF base = JustInTime THEN Contextual
                             ELSE IF base = Contextual THEN Standing ELSE base)
                       ELSE base)

\* a Full-trust agent checked against a task of criticality exactly 0.7
C17_Witness ==
    /\ check_last.called
    /\ check_last.result = CheckOk(JustInTime)
    /\ check_last.a_task.characteristics.criticality = (7 * Scale) \div 10
    /\ check_last.a_task.characteristics.reversibility = Scale
    /\ check_last.a_task.required_capabilities = <<"read", "write">>
    /\ check_last.agent.trust_level = "Full"

-----------------------------------------------------------------------------
(* The circuit-breaker registry under calls for any agent *)

\* CircuitBreakerRegistry::new with any threshold >= 1 and any cooldown
InitBreaker ==
    /\ ledger = InMemoryLedger_new
    /\ InitCore
    /\ InitControl
    /\ InitPerm
    /\ InitRep
    /\ InitEval
    /\ InitDisputes
    /\ breakers = <<>>
    /\ cb_config \in [threshold : 1..MaxThreshold, cooldown_secs : 0..MaxClock,
                      reputation_threshold : {(3 * Scale) \div 10}]
    /\ cb_pure = {}
    /\ cb_last = [op |-> "-", agent_id |-> 0, before |-> None, after |-> None,
                  at |-> 0, result |-> "-"]

\* what a registry call leaves behind
RegistryCall(op, agent_id, out) ==
    /\ breakers' = out.breakers
    /\ cb_last' = [op |-> op, agent_id |-> agent_id,
                   before |-> BreakerOf(breakers, agent_id),
                   after |-> BreakerOf(out.breakers, agent_id),
                   at |-> now, result |-> out.result]
    /\ UNCHANGED <<now, taskVars, serverVars, ledgerVars, writerVars, fileVars, controlVars,
                   permVars, repVars, evalVars, disputeVars, cb_config>>

RecordFailure(agent_id) ==
    /\ agent_id \in DOMAIN breakers => breakers[agent_id].failure_count < MaxFailures
    /\ RegistryCall("record_failure", agent_id,
                    Registry_record_failure(breakers, cb_config, agent_id, now))
    /\ cb_pure' = IF agent_id \in DOMAIN breakers THEN cb_pure
                  ELSE cb_pure \cup {agent_id}

RecordSuccess(agent_id) ==
    /\ RegistryCall("record_success", agent_id,
                    Registry_record_success(breakers, agent_id))
    /\ cb_pure' = cb_pure \ {agent_id}

CheckReputation(agent_id, composite) ==
    /\ RegistryCall("check_reputation", agent_id,
                    Registry_check_reputation(breakers, cb_config, agent_id,
                                              composite, now))
    /\ cb_pure' = cb_pure \ {agent_id}

CheckAgent(agent_id) ==
    /\ RegistryCall("check_agent", agent_id,
                    Registry_check_agent(breakers, agent_id, now))
    /\ cb_pure' = cb_pure \ {agent_id}

NextBreaker ==
    \/ Tick
    \/ \E agent_id \in BreakerAgents :
          \/ RecordFailure(agent_id)
          \/ RecordSuccess(agent_id)
          \/ \E composite \in {NaN, 0, (3 * Scale) \div 10, Scale} :
                CheckReputation(agent_id, composite)
          \/ CheckAgent(agent_id)

SpecBreaker == InitBreaker /\ [][NextBreaker]_vars

-----------------------------------------------------------------------------
(* Claims about circuit breakers, checked under SpecBreaker *)

\* the breaker is Open and its cooldown has elapsed at time t
CooldownElapsed(b, t) ==
    /\ b.state = "Open"
    /\ b.last_failure_at # None
    /\ t - b.last_failure_at[1] >= b.cooldown_secs

C19_CheckAgent ==
    cb_last.op = "check_agent"
    => IF cb_last.before = None
       THEN cb_last.result = "Ok" /\ cb_last.after = None
       ELSE LET b == cb_last.before[1]
                a == cb_last.after[1]
            IN /\ cb_last.after # None
               /\ a.state = IF CooldownElapsed(b, cb_last.at) THEN "HalfOpen"
                            ELSE b.state
               /\ cb_last.result = IF a.state = "Open" THEN "CircuitBreakerOpen"
                                   ELSE "Ok"

\* check_agent refused an agent whose breaker was Open and had not cooled down
C19_Witness ==
    /\ cb_last.op = "check_agent"
    /\ cb_last.before # None
    /\ cb_last.before[1].state = "Open"
    /\ cb_last.before[1].cooldown_secs > 0
    /\ cb_last.at > cb_last.before[1].last_failure_at[1]
    /\ cb_last.after[1].state = "Open"
    /\ cb_last.result = "CircuitBreakerOpen"

-----------------------------------------------------------------------------
(* One dispute driven by apply_event and resolve *)

InitDispute ==
    /\ ledger = InMemoryLedger_new
    /\ InitCore
    /\ InitControl
    /\ InitPerm
    /\ InitRep
    /\ InitEval
    /\ InitBreakers
    /\ \E bond_amount \in {0, 100} :
          /\ dispute = Dispute_new(bond_amount)
          /\ dispute_last = [op |-> "-", arg |-> "-", before |-> Dispute_new(bond_amount),
                             result |-> DisputeError]

DisputeApplyEvent(event) ==
    /\ LET out == Dispute_apply_event(dispute, event) IN
          /\ dispute' = out.dispute
          /\ dispute_last' = [op |-> "apply_event", arg |-> event, before |-> dispute,
                              result |-> out.result]
    /\ UNCHANGED <<now, taskVars, serverVars, ledgerVars, writerVars, fileVars, controlVars,
                   permVars, repVars, evalVars, cbVars>>

DisputeResolve(resolution) ==
    /\ LET out == Dispute_resolve(dispute, resolution) IN
          /\ dispute' = out.dispute
          /\ dispute_last' = [op |-> "resolve", arg |-> resolution,
                              before |-> dispute, result |-> out.result]
    /\ UNCHANGED <<now, taskVars, serverVars, ledgerVars, writerVars, fileVars, controlVars,
                   permVars, repVars, evalVars, cbVars>>

NextDispute ==
    \/ \E event \in DisputeEvent : DisputeApplyEvent(event)
    \/ \E resolution \in DisputeResolution : DisputeResolve(resolution)

SpecDispute == InitDispute /\ [][NextDispute]_vars

-----------------------------------------------------------------------------
(* Claims about the dispute state machine, checked under SpecDispute *)

\* the six accepted pairs: <<state, event, target>>
DisputeTable ==
    { <<"Filed", "DepositBond", "BondDeposited">>,
      <<"BondDeposited", "RunAlgorithm", "AlgorithmicResolution">>,
      <<"AlgorithmicResolution", "RequestPanel", "PanelReview">>,
      <<"AlgorithmicResolution", "Settle", "Settled">>,
      <<"PanelReview", "Adjudicate", "Adjudicated">>,
      <<"Adjudicated", "Settle", "Settled">> }

\* C20: DisputeState::transition accepts exactly the six pairs of the table and
\* returns DisputeError for every other pair, leaving the dispute unchanged; no
\* event is accepted in Settled.
C20_DisputeTable ==
    dispute_last.op = "apply_event"
    => LET from == dispute_last.before.state
           rows == {row \in DisputeTable :
                       row[1] = from /\ row[2] = dispute_last.arg}
       IN /\ rows # {}
             => /\ dispute_last.result.tag = "Ok"
                /\ \A row \in rows :
                      dispute = [dispute_last.before EXCEPT !.state = row[3]]
          /\ rows = {}
             => /\ dispute_last.result = DisputeError
                /\ dispute = dispute_last.before
          /\ from = "Settled" => dispute_last.result = DisputeError

\* Settle was refused on a dispute under panel review
C20_Witness ==
    /\ dispute_last.op = "apply_event"
    /\ dispute_last.arg = "Settle"
    /\ dispute_last.before.state = "PanelReview"
    /\ dispute_last.result = DisputeError
    /\ dispute.state = "PanelReview"

\* C21: resolve(r) succeeds if and only if the dispute is Adjudicated; on
\* success the state becomes Settled and resolution = Some(r); in every other
\* state it returns DisputeError and leaves state and resolution unchanged.
C21_ResolveRequiresAdjudicated ==
    dispute_last.op = "resolve"
    => LET before == dispute_last.before IN
       /\ (dispute_last.result.tag = "Ok") = (before.state = "Adjudicated")
       /\ before.state = "Adjudicated"
          => /\ dispute.state = "Settled"
             /\ dispute.resolution = Some(dispute_last.arg)
             /\ dispute.bond_amount = before.bond_amount
       /\ before.state # "Adjudicated"
          => /\ dispute_last.result = DisputeError
             /\ dispute = before

\* an adjudicated dispute was resolved with a split
C21_Witness ==
    /\ dispute_last.op = "resolve"
    /\ dispute_last.before.state = "Adjudicated"
    /\ dispute_last.before.resolution = None
    /\ dispute_last.result.tag = "Ok"
    /\ dispute.state = "Settled"
    /\ dispute.resolution = Some(<<"Split", Scale \div 2>>)

-----------------------------------------------------------------------------
(* SloChecker::check applied once to any checker and checkpoint *)

MetricNames == KnownMetrics \cup {"latency_ms"}
Thresholds == {NaN, 50}
ProgressValues == {NaN, 50, 100}
ResourceValues == {0, 50, 100}

SloDefinitions ==
    {SloDefinition(m, t, c, 300) : m \in MetricNames, t \in Thresholds, c \in Comparison}

\* the vectors of at most n definitions
SloDefinitionVecs(n) == UNION {[1..k -> SloDefinitions] : k \in 0..n}

InitSloCheck ==
    /\ ledger = InMemoryLedger_new
    /\ InitCore
    /\ InitPerm
    /\ InitRep
    /\ InitEval
    /\ InitBreakers
    /\ InitDisputes
    /\ InitLoop
    /\ InitCoord
    /\ InitBid
    /\ InitDecomp
    /\ InitReq
    /\ InitSenders
    /\ slo_defs \in SloDefinitionVecs(MaxDefs)
    /\ slo_cp \in {Checkpoint(2, 1, 0, p, r) : p \in ProgressValues, r \in ResourceValues}
    /\ slo_last = [called |-> FALSE, at |-> 0, violations |-> <<>>]

CheckSlo ==
    /\ ~slo_last.called
    /\ slo_last' = [called |-> TRUE, at |-> now,
                    violations |-> SloChecker_check(slo_defs, slo_cp, now)]
    /\ UNCHANGED <<now, taskVars, serverVars, ledgerVars, writerVars, fileVars,
                   permVars, repVars, evalVars, cbVars, disputeVars, monVars,
                   coordVars, bidVars, decompVars, reqVars, senderVars, slo_defs,
                   slo_cp>>

NextSloCheck == CheckSlo

SpecSloCheck == InitSloCheck /\ [][NextSloCheck]_vars

-----------------------------------------------------------------------------
(* Claims about the SLO checker, checked under SpecSloCheck *)

\* the positions of the definitions a checkpoint violates, as section 4.9 words it
ViolatedAt(definitions, checkpoint) ==
    {i \in 1..Len(definitions) :
        LET def == definitions[i]
            actual == IF def.metric_name = "progress_pct" THEN checkpoint.progress_pct
                      ELSE checkpoint.resource_consumed
        IN /\ def.metric_name \in {"progress_pct", "resource_consumed"}
           /\ actual # NaN
           /\ def.threshold # NaN
           /\ \/ def.comparison = "LessThan" /\ actual >= def.threshold
              \/ def.comparison = "GreaterThan" /\ actual <= def.threshold}

\* the k-th smallest member of a set of positions
KthOf(positions, k) ==
    CHOOSE i \in positions : Cardinality({j \in positions : j < i}) = k - 1

\* C27: check returns exactly one violation per definition whose metric is
\* progress_pct or resource_consumed and whose comparison is violated (LessThan
\* when actual >= threshold, GreaterThan when actual <= threshold), each with
\* the actual value, in definition order; other metric names produce nothing.
C27_SloCheck ==
    slo_last.called
    => LET hit == ViolatedAt(slo_defs, slo_cp)
           out == slo_last.violations
       IN /\ Len(out) = Cardinality(hit)
          /\ \A k \in 1..Len(out) :
                LET def == slo_defs[KthOf(hit, k)] IN
                /\ out[k].definition = def
                /\ out[k].actual_value =
                      IF def.metric_name = "progress_pct" THEN slo_cp.progress_pct
                      ELSE slo_cp.resource_consumed
          /\ \A k \in 1..Len(out) : out[k].definition.metric_name # "latency_ms"

\* a value equal to the threshold violated a LessThan and a GreaterThan definition
C27_Witness ==
    /\ slo_last.called
    /\ Len(slo_defs) = 2
    /\ slo_defs[1].comparison = "GreaterThan"
    /\ slo_defs[2].comparison = "LessThan"
    /\ \A i \in 1..2 : /\ slo_defs[i].metric_name = "resource_consumed"
                        /\ slo_defs[i].threshold = slo_cp.resource_consumed
    /\ Len(slo_last.violations) = 2
    /\ slo_last.violations[1].definition = slo_defs[1]

-----------------------------------------------------------------------------
(* MonitoringLoop::run with the tasks around it: the agents sending         *)
(* checkpoints, the consumer of the event channel, the holder of the       *)
(* shutdown sender. Both ledgers of the repository always return Ok.       *)

MonAgents == {1, 2}

\* heartbeat_check_interval of the loop's tests (600 s): longer than any run
LongInterval == MaxClock + 2

\* what the checkpoints of each agent report as consumed
ConsumedBy(agent_id) == IF agent_id = 1 THEN 100 ELSE 0

\* a checker with two definitions on resource_consumed: a checkpoint that has
\* consumed 0 violates neither, one that has consumed 100 violates both
MonDefinitions ==
    <<SloDefinition("resource_consumed", 50, "LessThan", 300),
      SloDefinition("resource_consumed", 100, "LessThan", 300)>>

InitMonitor ==
    /\ ledger = InMemoryLedger_new
    /\ InitCore
    /\ InitPerm
    /\ InitRep
    /\ InitEval
    /\ InitBreakers
    /\ InitDisputes
    /\ InitCoord
    /\ InitBid
    /\ InitDecomp
    /\ InitReq
    /\ InitSenders
    /\ slo_defs \in {<<>>, MonDefinitions}
    /\ slo_cp = NoCheckpoint
    /\ slo_last = [called |-> FALSE, at |-> 0, violations |-> <<>>]
    /\ cp_chan = <<>>
    /\ cp_sent = 0
    /\ evt_chan = <<>>
    /\ evt_rx = "open"
    /\ shutdown = [value |-> FALSE, changed |-> FALSE]
    /\ agent_heartbeats = <<>>
    /\ mon_config = [heartbeat_timeout |-> 1, heartbeat_check_interval |-> LongInterval]
    /\ mon_pc = "select"
    /\ mon_cp = None
    /\ mon_queue = <<>>
    /\ hb_next = 0
    /\ InitLoopHistory

\* the same loop without SLO definitions, with a tick of the timer at every tick
\* of the clock and a timeout shorter than a tick
InitHeartbeat ==
    /\ ledger = InMemoryLedger_new
    /\ InitCore
    /\ InitPerm
    /\ InitRep
    /\ InitEval
    /\ InitBreakers
    /\ InitDisputes
    /\ InitCoord
    /\ InitBid
    /\ InitDecomp
    /\ InitReq
    /\ InitSenders
    /\ slo_defs = <<>>
    /\ slo_cp = NoCheckpoint
    /\ slo_last = [called |-> FALSE, at |-> 0, violations |-> <<>>]
    /\ cp_chan = <<>>
    /\ cp_sent = 0
    /\ evt_chan = <<>>
    /\ evt_rx = "open"
    /\ shutdown = [value |-> FALSE, changed |-> FALSE]
    /\ agent_heartbeats = <<>>
    /\ mon_config = [heartbeat_timeout |-> 0, heartbeat_check_interval |-> 1]
    /\ mon_pc = "select"
    /\ mon_cp = None
    /\ mon_queue = <<>>
    /\ hb_next = 0
    /\ InitLoopHistory

otherVars == <<taskVars, serverVars, fileVars, permVars, repVars, evalVars, cbVars,
               disputeVars, coordVars, bidVars, decompVars, reqVars, senderVars>>

\* the clock advances
ClockAdvances ==
    /\ now < MaxClock
    /\ now' = now + 1
    /\ UNCHANGED <<otherVars, ledgerVars, writerVars, sloVars, monVars>>

\* an agent: cp_tx.send(Checkpoint::new(task, agent).with_resource_consumed(r)).await
SendCheckpoint(agent_id, task_id) ==
    /\ cp_sent < MaxCheckpoints
    /\ Len(cp_chan) < MaxBuffer
    /\ cp_chan' = Append(cp_chan, Checkpoint(task_id, agent_id, now, 0,
                                             ConsumedBy(agent_id)))
    /\ cp_sent' = cp_sent + 1
    /\ UNCHANGED <<now, otherVars, ledgerVars, writerVars, sloVars, evt_chan, evt_rx,
                   shutdown, agent_heartbeats, mon_config, mon_pc, mon_cp, mon_queue,
                   hb_next, mon_log, mon_last, hb_last, hb_refreshed>>

\* the consumer: evt_rx.recv().await
ReceiveEvent ==
    /\ evt_rx = "open"
    /\ evt_chan # <<>>
    /\ evt_chan' = Tail(evt_chan)
    /\ UNCHANGED <<now, otherVars, ledgerVars, writerVars, sloVars, cp_chan, cp_sent,
                   evt_rx, shutdown, agent_heartbeats, mon_config, mon_pc, mon_cp,
                   mon_queue, hb_next, mon_log, mon_last, hb_last, hb_refreshed>>

\* the consumer drops evt_rx: the channel is closed, what it held is gone
DropEventReceiver ==
    /\ evt_rx = "open"
    /\ evt_rx' = "closed"
    /\ evt_chan' = <<>>
    /\ UNCHANGED <<now, otherVars, ledgerVars, writerVars, sloVars, cp_chan, cp_sent,
                   shutdown, agent_heartbeats, mon_config, mon_pc, mon_cp, mon_queue,
                   hb_next, mon_log, mon_last, hb_last, hb_refreshed>>

\* shutdown_tx.send(true)
SignalShutdown ==
    /\ ~shutdown.value
    /\ shutdown' = [value |-> TRUE, changed |-> TRUE]
    /\ UNCHANGED <<now, otherVars, ledgerVars, writerVars, sloVars, cp_chan, cp_sent,
                   evt_chan, evt_rx, agent_heartbeats, mon_config, mon_pc, mon_cp,
                   mon_queue, hb_next, mon_log, mon_last, hb_last, hb_refreshed>>

\* the number of the checkpoint being handled: the inserts logged so far
Handled == Cardinality({i \in 1..Len(mon_log) : mon_log[i][2] = "insert"})

\* select!: Some(checkpoint) = checkpoint_rx.recv(); handle_checkpoint up to its
\* first await: the heartbeat is recorded, CheckpointReceived is the event to send
MonRecv ==
    /\ mon_pc = "select"
    /\ cp_chan # <<>>
    /\ LET checkpoint == Head(cp_chan) IN
          /\ cp_chan' = Tail(cp_chan)
          /\ agent_heartbeats' =
                Put(agent_heartbeats, checkpoint.agent_id, checkpoint.timestamp)
          /\ mon_cp' = Some(checkpoint)
          /\ mon_queue' = <<CheckpointReceived(checkpoint.task_id, checkpoint.agent_id,
                                               checkpoint.progress_pct)>>
          /\ mon_log' = Append(mon_log, <<Handled + 1, "insert">>)
          /\ mon_last' = [op |-> "insert", checkpoint |-> checkpoint]
          /\ hb_refreshed' =
                IF /\ \E i \in 1..Len(hb_last.order) : hb_last.order[i] = checkpoint.agent_id
                   /\ checkpoint.timestamp > hb_last.heartbeats[checkpoint.agent_id]
                THEN hb_refreshed \cup {checkpoint.agent_id}
                ELSE hb_refreshed
    /\ mon_pc' = "send_received"
    /\ UNCHANGED <<now, otherVars, ledgerVars, writerVars, sloVars, cp_sent, evt_chan,
                   evt_rx, shutdown, mon_config, hb_next, hb_last>>

\* event_tx.send(event).await completes: when the channel has room, or with Err,
\* which `let _ =` discards, when the receiver is gone. With the channel full and
\* the receiver alive it stays pending. What follows the send runs up to the next
\* await.
MonSend ==
    /\ mon_pc \in {"send_received", "send_violation", "send_unresponsive"}
    /\ evt_rx = "closed" \/ Len(evt_chan) < MaxBuffer
    /\ evt_chan' = IF evt_rx = "open" THEN Append(evt_chan, Head(mon_queue))
                   ELSE evt_chan
    /\ mon_last' = [op |-> "send", item |-> Head(mon_queue), sent |-> evt_rx = "open",
                    rest |-> Len(mon_queue) - 1]
    /\ mon_log' = IF mon_pc = "send_unresponsive" THEN mon_log
                  ELSE Append(mon_log, <<Handled, Head(mon_queue).event>>)
    /\ IF mon_pc = "send_received"
       THEN LET violations == SloChecker_check(slo_defs, mon_cp[1], now) IN
            /\ mon_queue' = ViolationEvents(mon_cp[1], violations)
            /\ mon_pc' = IF violations = <<>> THEN "latest_hash" ELSE "send_violation"
       ELSE /\ mon_queue' = Tail(mon_queue)
            /\ mon_pc' = IF Tail(mon_queue) # <<>> THEN mon_pc
                         ELSE IF mon_pc = "send_violation" THEN "latest_hash"
                         ELSE "select"
    /\ UNCHANGED <<now, otherVars, ledgerVars, writerVars, sloVars, cp_chan, cp_sent,
                   evt_rx, shutdown, agent_heartbeats, mon_config, mon_cp, hb_next,
                   hb_last, hb_refreshed>>

\* let prev_hash = self.ledger.latest_hash().await.unwrap_or(None)
MonLatestHash ==
    /\ mon_pc = "latest_hash"
    /\ w_prev' = [w_prev EXCEPT !["monitor"] = latest_hash(ledger)]
    /\ w_pc' = [w_pc EXCEPT !["monitor"] = "hashed"]
    /\ mon_pc' = "append"
    /\ UNCHANGED <<now, otherVars, ledgerVars, sloVars, cp_chan, cp_sent, evt_chan,
                   evt_rx, shutdown, agent_heartbeats, mon_config, mon_cp, mon_queue,
                   hb_next, mon_log, mon_last, hb_last, hb_refreshed>>

\* self.ledger.append(entry).await; handle_checkpoint returns
MonAppend ==
    /\ mon_pc = "append"
    /\ LET entry == checkpoint_entry(next_id + 1, now, mon_cp[1], w_prev["monitor"]) IN
          /\ ledger' = Ledger_append(ledger, entry)
          /\ mon_last' = [op |-> "append", entry |-> entry, checkpoint |-> mon_cp[1]]
    /\ mon_log' = Append(mon_log, <<Handled, "append">>)
    /\ next_id' = next_id + 1
    /\ w_prev' = [w_prev EXCEPT !["monitor"] = None]
    /\ w_pc' = [w_pc EXCEPT !["monitor"] = "idle"]
    /\ mon_cp' = None
    /\ mon_pc' = "select"
    /\ UNCHANGED <<now, otherVars, sloVars, cp_chan, cp_sent, evt_chan, evt_rx,
                   shutdown, agent_heartbeats, mon_config, mon_queue, hb_next, hb_last,
                   hb_refreshed>>

\* select!: heartbeat_interval.tick(), ready from its deadline on (the first one
\* at once); check_heartbeats up to its first await
MonTick ==
    /\ mon_pc = "select"
    /\ now >= hb_next
    /\ hb_next' = hb_next + mon_config.heartbeat_check_interval
    /\ \E order \in Orderings(unresponsive(agent_heartbeats, now,
                                             mon_config.heartbeat_timeout)) :
          /\ mon_queue' = [i \in 1..Len(order) |->
                              AgentUnresponsive(order[i], agent_heartbeats[order[i]])]
          /\ mon_pc' = IF order = <<>> THEN "select" ELSE "send_unresponsive"
          /\ hb_last' = [called |-> TRUE, at |-> now, heartbeats |-> agent_heartbeats,
                         order |-> order,
                         refreshed |-> {order[i] : i \in 1..Len(order)} \cap hb_refreshed]
    /\ hb_refreshed' = {}
    /\ mon_last' = [op |-> "tick"]
    /\ UNCHANGED <<now, otherVars, ledgerVars, writerVars, sloVars, cp_chan, cp_sent,
                   evt_chan, evt_rx, shutdown, agent_heartbeats, mon_config, mon_cp,
                   mon_log>>

\* select!: Ok(()) = shutdown_rx.changed(); break when the value is true
MonShutdown ==
    /\ mon_pc = "select"
    /\ shutdown.changed
    /\ shutdown' = [shutdown EXCEPT !.changed = FALSE]
    /\ mon_pc' = IF shutdown.value THEN "exited" ELSE "select"
    /\ UNCHANGED <<now, otherVars, ledgerVars, writerVars, sloVars, cp_chan, cp_sent,
                   evt_chan, evt_rx, agent_heartbeats, mon_config, mon_cp, mon_queue,
                   hb_next, mon_log, mon_last, hb_last, hb_refreshed>>

\* the steps of the loop's own task
MonStep ==
    \/ MonRecv
    \/ MonSend
    \/ MonLatestHash
    \/ MonAppend
    \/ MonTick
    \/ MonShutdown

NextMonitor ==
    \/ \E agent_id \in MonAgents, task_id \in TaskIds : SendCheckpoint(agent_id, task_id)
    \/ ReceiveEvent
    \/ DropEventReceiver
    \/ SignalShutdown
    \/ MonStep

SpecMonitor == InitMonitor /\ [][NextMonitor]_vars

\* the loop while nobody signals shutdown and the consumer keeps its receiver
NextHeartbeat ==
    \/ ClockAdvances
    \/ \E agent_id \in MonAgents, task_id \in TaskIds :
          /\ agent_id = 1 \/ cp_sent > 0    \* the agents are alike: agent 1 is the first
          /\ SendCheckpoint(agent_id, task_id)
    \/ ReceiveEvent
    \/ MonRecv
    \/ MonSend
    \/ MonLatestHash
    \/ MonAppend
    \/ MonTick

SpecHeartbeat == InitHeartbeat /\ [][NextHeartbeat]_vars

\* the runtime keeps polling the loop's task; nothing makes the consumer receive
SpecMonitorLive == SpecMonitor /\ WF_vars(MonStep)

-----------------------------------------------------------------------------
(* Claims about handle_checkpoint and shutdown, checked under SpecMonitor  *)
(* and SpecMonitorLive                                                      *)

\* the logged steps of the n-th checkpoint
StepsOf(n) == SelectSeq(mon_log, LAMBDA step : step[1] = n)

\* how many SloViolation events the n-th checkpoint has had sent
ViolationsSent(n) ==
    Cardinality({i \in 1..Len(mon_log) : mon_log[i] = <<n, "SloViolation">>})

\* C22: for each checkpoint it handles the loop records agent -> timestamp in
\* the heartbeat map, sends CheckpointReceived{task, agent, progress} first, then
\* one SloViolation per violated definition, and only then appends one
\* CheckpointRecorded entry (actor = agent, subject = task); every step of an
\* earlier checkpoint comes before any step of a later one.
C22_CheckpointOrder ==
    /\ \A i, j \in 1..Len(mon_log) : i < j => mon_log[i][1] <= mon_log[j][1]
    /\ \A n \in 1..Handled :
          LET steps == StepsOf(n) IN
          /\ steps[1][2] = "insert"
          /\ Len(steps) >= 2 => steps[2][2] = "CheckpointReceived"
          /\ \A i \in 3..Len(steps) :
                \/ steps[i][2] = "SloViolation"
                \/ steps[i][2] = "append" /\ i = Len(steps)
          /\ n < Handled => steps[Len(steps)][2] = "append"
    /\ Len(ledger.entries) =
          Cardinality({i \in 1..Len(mon_log) : mon_log[i][2] = "append"})
    /\ mon_last.op = "insert"
       => /\ mon_last.checkpoint.agent_id \in DOMAIN agent_heartbeats
          /\ agent_heartbeats[mon_last.checkpoint.agent_id] = mon_last.checkpoint.timestamp
    /\ (mon_last.op = "send" /\ mon_last.item.event = "CheckpointReceived")
       => /\ mon_last.item.task_id = mon_cp[1].task_id
          /\ mon_last.item.agent_id = mon_cp[1].agent_id
          /\ mon_last.item.progress_pct = mon_cp[1].progress_pct
    /\ (mon_last.op = "send" /\ mon_last.item.event = "SloViolation")
       => LET hit == ViolatedAt(slo_defs, mon_cp[1])
              k == ViolationsSent(Handled)
          IN /\ k <= Cardinality(hit)
             /\ mon_last.item.task_id = mon_cp[1].task_id
             /\ mon_last.item.agent_id = mon_cp[1].agent_id
             /\ mon_last.item.violation.definition = slo_defs[KthOf(hit, k)]
             /\ mon_last.item.violation.actual_value = mon_cp[1].resource_consumed
    /\ mon_last.op = "append"
       => /\ ViolationsSent(Handled) =
                Cardinality(ViolatedAt(slo_defs, mon_last.checkpoint))
          /\ mon_last.entry.kind = "CheckpointRecorded"
          /\ mon_last.entry.actor_id = mon_last.checkpoint.agent_id
          /\ mon_last.entry.subject_id = mon_last.checkpoint.task_id
          /\ ledger.entries[Len(ledger.entries)] = mon_last.entry

\* a checkpoint with two violations and then one with none, both recorded
C22_Witness ==
    /\ mon_log = << <<1, "insert">>, <<1, "CheckpointReceived">>, <<1, "SloViolation">>,
                    <<1, "SloViolation">>, <<1, "append">>, <<2, "insert">>,
                    <<2, "CheckpointReceived">>, <<2, "append">> >>
    /\ slo_defs = MonDefinitions
    /\ Len(ledger.entries) = 2
    /\ ledger.entries[1].actor_id = 1
    /\ ledger.entries[2].actor_id = 2

\* the handler is at an event_tx.send(..).await
Sending == mon_pc \in {"send_received", "send_violation", "send_unresponsive"}

\* C23: event emission is best-effort: when the event channel is full or
\* closed the event is dropped and handling goes on; the loop never waits for
\* room in the event channel.
C23_BestEffortSend ==
    Sending => (evt_rx = "closed" \/ Len(evt_chan) < MaxBuffer)

\* C24: once shutdown = true has been signalled, MonitoringLoop::run
\* eventually exits, whatever its channels hold and whether or not the events
\* are consumed.
C24_ShutdownLiveness == shutdown.value ~> (mon_pc = "exited")

-----------------------------------------------------------------------------
(* Claims about check_heartbeats, checked under SpecHeartbeat *)

\* the agents of the map whose timestamp is more than the timeout before `at`
Stale(heartbeats, at) ==
    {a \in DOMAIN heartbeats : at - heartbeats[a] > mon_config.heartbeat_timeout}

-----------------------------------------------------------------------------
(* Coordinator::run with the tasks around it: the senders of triggers, the  *)
(* consumer of the plan channel, the holder of the shutdown sender          *)

\* the triggers sent: every variant, with empty and non-empty strings
Triggers ==
    {[origin |-> "External", trigger |-> "TaskSpecChanged", task_id |-> 2]}
    \cup {[origin |-> "External", trigger |-> "ResourceFluctuation",
           resource_name |-> n, delta |-> x] : n \in {"", "gpu_memory"}, x \in {NaN, 300}}
    \cup {[origin |-> "External", trigger |-> "PriorityChanged", task_id |-> 2,
           new_priority |-> 900]}
    \cup {[origin |-> "External", trigger |-> "SecurityThreat", agent_id |-> 1,
           description |-> ""]}
    \cup {[origin |-> "Internal", trigger |-> "PerformanceDegraded", task_id |-> 2,
           agent_id |-> a, metric |-> "latency", value |-> 5 * Scale] : a \in MonAgents}
    \cup {[origin |-> "Internal", trigger |-> "BudgetExceeded", task_id |-> 2,
           consumed |-> 150 * Scale, limit |-> 100 * Scale]}
    \cup {[origin |-> "Internal", trigger |-> "VerificationFailed", task_id |-> 2,
           reason |-> "output mismatch"]}
    \cup {[origin |-> "Internal", trigger |-> "AgentUnresponsive", agent_id |-> 1]}

InitCoordinator ==
    /\ ledger = InMemoryLedger_new
    /\ InitCommon

coordOtherVars == <<now, taskVars, serverVars, ledgerVars, writerVars, fileVars, permVars,
                    repVars, evalVars, cbVars, disputeVars, sloVars, monVars, bidVars,
                    decompVars, reqVars, senderVars>>

\* a producer: trigger_tx.send(trigger).await
SendTrigger(trigger) ==
    /\ trig_sent < MaxTriggers
    /\ Len(trig_chan) < MaxBuffer
    /\ trig_chan' = Append(trig_chan, trigger)
    /\ trig_sent' = trig_sent + 1
    /\ UNCHANGED <<coordOtherVars, plan_chan, plan_rx, co_shutdown, co_pc, co_plan,
                   co_consumed, co_emitted, co_received>>

\* the consumer: response_rx.recv().await
ReceivePlan ==
    /\ plan_rx = "open"
    /\ plan_chan # <<>>
    /\ plan_chan' = Tail(plan_chan)
    /\ co_received' = Append(co_received, Head(plan_chan))
    /\ UNCHANGED <<coordOtherVars, trig_chan, trig_sent, plan_rx, co_shutdown, co_pc,
                   co_plan, co_consumed, co_emitted>>

\* the consumer drops response_rx: the channel is closed, what it held is gone
DropPlanReceiver ==
    /\ plan_rx = "open"
    /\ plan_rx' = "closed"
    /\ plan_chan' = <<>>
    /\ UNCHANGED <<coordOtherVars, trig_chan, trig_sent, co_shutdown, co_pc, co_plan,
                   co_consumed, co_emitted, co_received>>

\* shutdown_tx.send(true)
CoSignalShutdown ==
    /\ ~co_shutdown.value
    /\ co_shutdown' = [value |-> TRUE, changed |-> TRUE]
    /\ UNCHANGED <<coordOtherVars, trig_chan, trig_sent, plan_chan, plan_rx, co_pc,
                   co_plan, co_consumed, co_emitted, co_received>>

\* select!: Some(trigger) = trigger_rx.recv(); the plan is built
CoRecv ==
    /\ co_pc = "select"
    /\ trig_chan # <<>>
    /\ trig_chan' = Tail(trig_chan)
    /\ co_consumed' = Append(co_consumed, Head(trig_chan))
    /\ co_plan' = Some(handle_trigger(Head(trig_chan)))
    /\ co_pc' = "send"
    /\ UNCHANGED <<coordOtherVars, trig_sent, plan_chan, plan_rx, co_shutdown,
                   co_emitted, co_received>>

\* response_tx.send(plan).await completes: when the channel has room, or with
\* Err, which is logged, when the receiver is gone
CoSend ==
    /\ co_pc = "send"
    /\ plan_rx = "closed" \/ Len(plan_chan) < MaxBuffer
    /\ plan_chan' = IF plan_rx = "open" THEN Append(plan_chan, co_plan[1]) ELSE plan_chan
    /\ co_emitted' = Append(co_emitted, co_plan[1])
    /\ co_plan' = None
    /\ co_pc' = "select"
    /\ UNCHANGED <<coordOtherVars, trig_chan, trig_sent, plan_rx, co_shutdown,
                   co_consumed, co_received>>

\* select!: Ok(()) = shutdown_rx.changed(); break when the value is true
CoShutdown ==
    /\ co_pc = "select"
    /\ co_shutdown.changed
    /\ co_shutdown' = [co_shutdown EXCEPT !.changed = FALSE]
    /\ co_pc' = IF co_shutdown.value THEN "exited" ELSE "select"
    /\ UNCHANGED <<coordOtherVars, trig_chan, trig_sent, plan_chan, plan_rx, co_plan,
                   co_consumed, co_emitted, co_received>>

\* the steps of the coordinator's own task
CoStep ==
    \/ CoRecv
    \/ CoSend
    \/ CoShutdown

NextCoordinator ==
    \/ \E trigger \in Triggers : SendTrigger(trigger)
    \/ ReceivePlan
    \/ DropPlanReceiver
    \/ CoSignalShutdown
    \/ CoStep

SpecCoordinator == InitCoordinator /\ [][NextCoordinator]_vars

\* the runtime keeps polling the coordinator's task; nothing makes the consumer
\* receive
SpecCoordinatorLive == SpecCoordinator /\ WF_vars(CoStep)

-----------------------------------------------------------------------------
(* Claims about the coordinator, checked under SpecCoordinator *)

\* the trigger table: the actions of the plan of a trigger
TriggerTable(t) ==
    CASE t.trigger = "TaskSpecChanged" -> <<[action |-> "Redecompose", task_id |-> t.task_id]>>
      [] t.trigger \in {"ResourceFluctuation", "SecurityThreat", "AgentUnresponsive"} ->
            <<[action |-> "Escalate", task_id |-> None]>>
      [] t.trigger = "PriorityChanged" ->
            <<[action |-> "AdjustParameters", task_id |-> t.task_id]>>
      [] t.trigger = "PerformanceDegraded" ->
            <<[action |-> "Redelegate", task_id |-> t.task_id, from_agent_id |-> t.agent_id]>>
      [] t.trigger = "BudgetExceeded" -> <<[action |-> "Terminate", task_id |-> t.task_id]>>
      [] t.trigger = "VerificationFailed" ->
            <<[action |-> "Redecompose", task_id |-> t.task_id],
              [action |-> "Escalate", task_id |-> Some(t.task_id)]>>

\* the plan is the one the table gives for the trigger
PlanOf(plan, t) ==
    /\ Len(plan.actions) = Len(TriggerTable(t))
    /\ \A i \in 1..Len(plan.actions) :
          LET want == TriggerTable(t)[i]
              have == plan.actions[i]
          IN /\ have.action = want.action
             /\ have.task_id = want.task_id
             /\ want.action = "Redelegate" => have.from_agent_id = want.from_agent_id
    /\ plan.justification # <<>>

CoordinatorShutdownLiveness == co_shutdown.value ~> (co_pc = "exited")

-----------------------------------------------------------------------------
(* BidEvaluator::evaluate on every list of at most MaxBids bids *)

BidAgents == {1, 2}

\* proposed costs: none, half the budget, over the budget
ProposedCosts == {NaN, 0, 50 * Scale, 150 * Scale}
Confidences == {NaN, 0, Scale}
MaxCosts == {NaN, 0, 100 * Scale}

Bids == {Bid(a, 2, c, 3600, f) : a \in BidAgents, c \in ProposedCosts, f \in Confidences}

RECURSIVE BidVecs(_)
BidVecs(n) ==
    IF n = 0 THEN {<<>>}
    ELSE BidVecs(n - 1) \cup {Append(v, b) : v \in BidVecs(n - 1), b \in Bids}

\* q: the same for every agent, or better for agent 2
QualityPredictors ==
    {[a \in BidAgents |-> 800], [a \in BidAgents |-> IF a = 2 THEN 950 ELSE 300]}

BidEvaluators == {BidEvaluator_default, BidEvaluator_new(200, 600, 200)}

InitBidEvaluation ==
    /\ ledger = InMemoryLedger_new
    /\ InitCore
    /\ InitPerm
    /\ InitRep
    /\ InitEval
    /\ InitBreakers
    /\ InitDisputes
    /\ InitSlo
    /\ InitLoop
    /\ InitCoord
    /\ InitDecomp
    /\ InitReq
    /\ InitSenders
    /\ bid_in \in [self : BidEvaluators, bids : BidVecs(MaxBids), max_cost : MaxCosts,
                   quality_predictor : QualityPredictors]
    /\ bid_out = [called |-> FALSE, scored |-> <<>>]

EvaluateBids ==
    /\ ~bid_out.called
    /\ bid_out' = [called |-> TRUE,
                   scored |-> BidEvaluator_evaluate(bid_in.self, bid_in.bids,
                                                    bid_in.max_cost,
                                                    bid_in.quality_predictor)]
    /\ UNCHANGED <<now, taskVars, serverVars, ledgerVars, writerVars, fileVars, permVars,
                   repVars, evalVars, cbVars, disputeVars, sloVars, monVars, coordVars,
                   decompVars, reqVars, senderVars, bid_in>>

NextBid == EvaluateBids

SpecBid == InitBidEvaluation /\ [][NextBid]_vars

-----------------------------------------------------------------------------
(* Claims about BidEvaluator::evaluate, checked under SpecBid *)

\* how many elements of a sequence satisfy equality with x
CountOf(v, x) == Cardinality({i \in 1..Len(v) : v[i] = x})

\* the bids of the input within the budget, in input order
WithinBudget ==
    SelectSeq(bid_in.bids, LAMBDA b : b.proposed_cost # NaN /\ bid_in.max_cost # NaN
                                       /\ b.proposed_cost <= bid_in.max_cost)

\* the scores the specification gives a bid
ExpectedScores(b) ==
    LET cs == IF bid_in.max_cost # NaN /\ bid_in.max_cost > 0
              THEN Scale - (b.proposed_cost * Scale) \div bid_in.max_cost
              ELSE 0
        q == bid_in.quality_predictor[b.agent_id]
    IN [cost_score |-> cs,
        total_score |-> IF b.confidence_score = NaN THEN NaN
                        ELSE bid_in.self.cost_weight * cs
                             + bid_in.self.quality_weight * q
                             + bid_in.self.confidence_weight * b.confidence_score]

\* the output holds exactly the bids within the budget, each once, each with
\* its scores
C28_ExactlyWithinBudget ==
    bid_out.called
    => LET out == bid_out.scored IN
       /\ Len(out) = Len(WithinBudget)
       /\ \A i \in 1..Len(out) :
             /\ CountOf([j \in 1..Len(out) |-> out[j].bid], out[i].bid)
                   = CountOf(WithinBudget, out[i].bid)
             /\ out[i].cost_score = ExpectedScores(out[i].bid).cost_score
             /\ out[i].total_score = ExpectedScores(out[i].bid).total_score

\* no element of the output has a lower total_score than a later one
C28_NonIncreasing ==
    bid_out.called
    => LET out == bid_out.scored IN
       \A i, j \in 1..Len(out) :
          i < j => ~F64Lt(out[i].total_score, out[j].total_score)

\* the bids of one total_score come in input order
C28_TiesInInputOrder ==
    bid_out.called
    => LET out == bid_out.scored IN
       \A i \in 1..Len(out) :
          out[i].total_score # NaN
          => LET t == out[i].total_score IN
             [k \in 1..Len(SelectSeq(out, LAMBDA x : x.total_score = t)) |->
                 SelectSeq(out, LAMBDA x : x.total_score = t)[k].bid]
             = SelectSeq(WithinBudget,
                         LAMBDA b : ExpectedScores(b).total_score = t)

\* C28: BidEvaluator::evaluate returns exactly the input bids with
\* proposed_cost <= max_cost, each once and with the scores of the formula,
\* sorted by total_score non-increasing, ties in input order.
C28_EvaluateRanks ==
    /\ C28_ExactlyWithinBudget
    /\ C28_NonIncreasing
    /\ C28_TiesInInputOrder

-----------------------------------------------------------------------------
(* decompose of the three strategies, on tasks of every kind *)

\* SequentialStrategy::default and other values of its public fields
SequentialStrategies ==
    {[name |-> "sequential", min_subtasks |-> lo, max_subtasks |-> hi] :
        lo \in {0, 2, 3}, hi \in {0, 1, 2, 5}}

\* ParallelStrategy::default and a smaller one
ParallelStrategies == {[name |-> "parallel", max_subtasks |-> hi] : hi \in {1, 8}}

\* HybridStrategy::default, the only way to build one
HybridStrategies ==
    {[name |-> "hybrid", verifiability_threshold |-> VERIFIABILITY_THRESHOLD]}

Strategies == SequentialStrategies \cup ParallelStrategies \cup HybridStrategies

\* the task's characteristics: NaN, the ends of the range, on and around the
\* verifiability threshold
DecompTasks ==
    {[id |-> 10, name |-> n, characteristics |-> TaskCharacteristics(c, u, v, Scale \div 2)] :
        n \in {"", "test task"},
        c \in {NaN, 0, Scale \div 2, (8 * Scale) \div 10, Scale, 2 * Scale},
        u \in {0, Scale},
        v \in {NaN, VERIFIABILITY_THRESHOLD - 100, VERIFIABILITY_THRESHOLD,
               Scale \div 2}}

InitDecompose ==
    /\ ledger = InMemoryLedger_new
    /\ InitCore
    /\ InitPerm
    /\ InitRep
    /\ InitEval
    /\ InitBreakers
    /\ InitDisputes
    /\ InitSlo
    /\ InitLoop
    /\ InitCoord
    /\ InitBid
    /\ InitReq
    /\ InitSenders
    /\ decomp_in \in [strategy : Strategies, task : DecompTasks]
    /\ decomp_out = [called |-> FALSE, proposal |-> <<>>, acyclic |-> FALSE]

\* strategy.decompose(&task).await.unwrap(), then proposal.is_acyclic()
Decompose ==
    /\ ~decomp_out.called
    /\ LET proposal == decompose(decomp_in.strategy, decomp_in.task) IN
          decomp_out' = [called |-> TRUE, proposal |-> proposal,
                         acyclic |-> is_acyclic(proposal)]
    /\ UNCHANGED <<now, taskVars, serverVars, ledgerVars, writerVars, fileVars, permVars,
                   repVars, evalVars, cbVars, disputeVars, sloVars, monVars, coordVars,
                   bidVars, reqVars, senderVars, decomp_in>>

NextDecompose == Decompose

SpecDecompose == InitDecompose /\ [][NextDecompose]_vars

-----------------------------------------------------------------------------
(* Claims about the strategies, checked under SpecDecompose *)

\* the ids of the subtasks of a proposal
SubtaskIds(proposal) == {proposal.subtasks[i].id : i \in 1..Len(proposal.subtasks)}

\* the edges of a proposal, as a set of pairs
Edges(proposal) ==
    {<<proposal.dependencies[i].from, proposal.dependencies[i].to>> :
        i \in 1..Len(proposal.dependencies)}

\* the nodes reachable from `from` in at most n further steps
RECURSIVE Reach(_, _, _)
Reach(edges, from, n) ==
    IF n = 0 THEN from
    ELSE Reach(edges, from \cup {e[2] : e \in {x \in edges : x[1] \in from}}, n - 1)

\* no node is reachable from one of its successors
NoCycle(proposal) ==
    \A e \in Edges(proposal) :
       e[1] \notin Reach(Edges(proposal), {e[2]}, Cardinality(Edges(proposal)))

\* the subtasks whose name ends with the given piece
Named(proposal, piece) ==
    {proposal.subtasks[i].id :
        i \in {j \in 1..Len(proposal.subtasks) :
                  \E k \in 1..Len(proposal.subtasks[j].name) :
                     proposal.subtasks[j].name[k] = Lit(piece)}}

\* C29: the proposal of every strategy is acyclic, is_acyclic() says so, and
\* every edge joins two of its subtasks: Sequential gives a chain of n subtasks
\* with n-1 edges (none when n = 0), Parallel gives no edges, Hybrid gives
\* prep -> each worker -> aggregate, plus aggregate -> extra verification
\* exactly when verifiability < 0.3.
C29_ProposalsAcyclic ==
    decomp_out.called
    => LET p == decomp_out.proposal
           n == Len(p.subtasks)
       IN /\ decomp_out.acyclic
          /\ NoCycle(p)
          /\ Cardinality(SubtaskIds(p)) = n
          /\ \A e \in Edges(p) : e[1] \in SubtaskIds(p) /\ e[2] \in SubtaskIds(p)
          /\ Cardinality(Edges(p)) = Len(p.dependencies)
          /\ decomp_in.strategy.name = "sequential"
             => /\ Len(p.dependencies) = IF n = 0 THEN 0 ELSE n - 1
                /\ \A i \in 1..Len(p.dependencies) :
                      p.dependencies[i] =
                         SubtaskDependency(p.subtasks[i].id, p.subtasks[i + 1].id)
          /\ decomp_in.strategy.name = "parallel"
             => /\ p.dependencies = <<>>
                /\ n >= 2
          /\ decomp_in.strategy.name = "hybrid"
             => LET prep == Named(p, " - prepare")
                    agg == Named(p, " - aggregate")
                    verify == Named(p, " - extra verification")
                    workers == SubtaskIds(p) \ (prep \cup agg \cup verify)
                    low == /\ decomp_in.task.characteristics.verifiability # NaN
                           /\ decomp_in.task.characteristics.verifiability
                                 < VERIFIABILITY_THRESHOLD
                IN /\ Cardinality(prep) = 1
                   /\ Cardinality(agg) = 1
                   /\ Cardinality(workers) >= 2
                   /\ Cardinality(verify) = (IF low THEN 1 ELSE 0)
                   /\ Edges(p) = (prep \X workers) \cup (workers \X agg)
                                    \cup (agg \X verify)

\* a hybrid proposal of four workers with the extra verification step
C29_Witness ==
    /\ decomp_out.called
    /\ decomp_in.strategy.name = "hybrid"
    /\ Len(decomp_out.proposal.subtasks) = 7
    /\ Len(decomp_out.proposal.dependencies) = 9
    /\ decomp_out.acyclic

-----------------------------------------------------------------------------
(* transition_task requests served in parallel by the runtime's threads:    *)
(* handlers.rs:80-94. get_mut returns a guard that holds the write lock of  *)
(* the key's shard until the handler returns.                               *)

InitRequests ==
    /\ ledger = InMemoryLedger_new
    /\ InitCore
    /\ InitPerm
    /\ InitRep
    /\ InitEval
    /\ InitBreakers
    /\ InitDisputes
    /\ InitSlo
    /\ InitLoop
    /\ InitCoord
    /\ InitBid
    /\ InitDecomp
    /\ InitSenders
    /\ http_reqs = [r \in 1..MaxRequests |-> IdleRequest]
    /\ shard_lock = [shard \in Shards |-> 0]
    /\ shard_of \in [TaskKeys -> Shards]
    /\ assign_last = [request |-> 0, before |-> "-", event |-> "-", after |-> "-"]
    /\ ep_state = "Pending"

reqOtherVars == <<now, taskVars, ledgerVars, writerVars, fileVars, permVars, repVars,
                  evalVars, cbVars, disputeVars, sloVars, monVars, coordVars, bidVars,
                  decompVars, senderVars>>

InFlightRequests == {r \in 1..MaxRequests : http_reqs[r].pc \notin {"idle", "done"}}

\* create_task, once: tasks.insert takes the write lock of the key's shard
CreateFirstTask ==
    /\ tasks = <<>>
    /\ write_lock_free(shard_lock, shard_of[1])
    /\ CreateTask

\* POST /api/v1/tasks/{task_id}/transition with body {event} arrives
RequestArrives(r, task_id, event) ==
    /\ tasks # <<>>
    /\ http_reqs[r].pc = "idle"
    /\ LET same == {o \in InFlightRequests :
                       http_reqs[o].task_id = task_id /\ http_reqs[o].event = event}
       IN http_reqs' = [o \in 1..MaxRequests |->
                           IF o = r
                           THEN [IdleRequest EXCEPT !.pc = "get_mut", !.task_id = task_id,
                                                    !.event = event,
                                                    !.overlapped = same # {}]
                           ELSE IF o \in same
                           THEN [http_reqs[o] EXCEPT !.overlapped = TRUE]
                           ELSE http_reqs[o]]
    /\ UNCHANGED <<reqOtherVars, serverVars, shard_lock, shard_of, assign_last, ep_state>>

\* state.tasks.get_mut(&task_id).ok_or(NOT_FOUND)?: waits for the shard's lock
GetMut(r) ==
    /\ http_reqs[r].pc = "get_mut"
    /\ write_lock_free(shard_lock, shard_of[http_reqs[r].task_id])
    /\ IF http_reqs[r].task_id \in DOMAIN tasks
       THEN /\ shard_lock' = [shard_lock EXCEPT ![shard_of[http_reqs[r].task_id]] = r]
            /\ http_reqs' = [http_reqs EXCEPT ![r].pc = "transition"]
       ELSE /\ shard_lock' = shard_lock
            /\ http_reqs' = [http_reqs EXCEPT ![r].pc = "done",
                                              ![r].response = "404 Not Found"]
    /\ UNCHANGED <<reqOtherVars, serverVars, shard_of, assign_last, ep_state>>

\* apply_event: self.state.transition(event)?; on Err the handler returns 400
\* and the guard is dropped
TransitionStep(r) ==
    /\ http_reqs[r].pc = "transition"
    /\ LET result == transition(tasks[http_reqs[r].task_id].state, http_reqs[r].event) IN
          IF result.tag = "Ok"
          THEN /\ http_reqs' = [http_reqs EXCEPT ![r].pc = "assign", ![r].result = result]
               /\ shard_lock' = shard_lock
          ELSE /\ http_reqs' = [http_reqs EXCEPT ![r].pc = "done", ![r].result = result,
                                                ![r].response = "400 Bad Request"]
               /\ shard_lock' = [shard \in Shards |->
                                    IF shard_lock[shard] = r THEN 0 ELSE shard_lock[shard]]
    /\ UNCHANGED <<reqOtherVars, serverVars, shard_of, assign_last, ep_state>>

\* apply_event: self.state = ..; self.updated_at = Utc::now(); the handler
\* returns Ok(Json(task.clone())) and the guard is dropped
AssignStep(r) ==
    /\ http_reqs[r].pc = "assign"
    /\ LET task_id == http_reqs[r].task_id IN
          /\ tasks' = [tasks EXCEPT ![task_id].state = http_reqs[r].result.state,
                                    ![task_id].updated_at = now]
          /\ assign_last' = [request |-> r, before |-> tasks[task_id].state,
                             event |-> http_reqs[r].event,
                             after |-> http_reqs[r].result.state]
    /\ http_reqs' = [http_reqs EXCEPT ![r].pc = "done", ![r].response = "200 OK"]
    /\ shard_lock' = [shard \in Shards |->
                         IF shard_lock[shard] = r THEN 0 ELSE shard_lock[shard]]
    /\ UNCHANGED <<reqOtherVars, response, shard_of, ep_state>>

\* the responses have been read; the next requests may arrive
ResponsesRead ==
    /\ InFlightRequests = {}
    /\ \E r \in 1..MaxRequests : http_reqs[r].pc = "done"
    /\ http_reqs' = [r \in 1..MaxRequests |-> IdleRequest]
    /\ ep_state' = tasks[1].state
    /\ UNCHANGED <<reqOtherVars, serverVars, shard_lock, shard_of, assign_last>>

NextRequests ==
    \/ CreateFirstTask
    \/ \E r \in 1..MaxRequests, task_id \in TaskKeys, event \in TaskEvent :
          RequestArrives(r, task_id, event)
    \/ \E r \in 1..MaxRequests : GetMut(r)
    \/ \E r \in 1..MaxRequests : TransitionStep(r)
    \/ \E r \in 1..MaxRequests : AssignStep(r)
    \/ ResponsesRead

SpecRequests == InitRequests /\ [][NextRequests]_vars

-----------------------------------------------------------------------------
(* Claims about concurrent transition requests, checked under SpecRequests *)

\* the requests that hold a guard on the task
Holding(task_id) ==
    {r \in 1..MaxRequests :
        http_reqs[r].pc \in {"transition", "assign"} /\ http_reqs[r].task_id = task_id}

\* two finished requests for task 1 that carried the same event and were in
\* flight together, with no third request for the task
SameEventPair(a, b) ==
    /\ a # b
    /\ http_reqs[a].pc = "done" /\ http_reqs[b].pc = "done"
    /\ http_reqs[a].task_id = 1 /\ http_reqs[b].task_id = 1
    /\ http_reqs[a].event = http_reqs[b].event
    /\ http_reqs[a].overlapped /\ http_reqs[b].overlapped
    /\ \A o \in 1..MaxRequests \ {a, b} : http_reqs[o].task_id # 1

Succeeded(a, b) == {r \in {a, b} : http_reqs[r].response = "200 OK"}
Rejected(a, b) ==
    {r \in {a, b} : /\ http_reqs[r].response = "400 Bad Request"
                    /\ http_reqs[r].result.tag = "InvalidStateTransition"}

\* at most one request holds a guard on a task, and every assignment to a
\* task's state follows the transition table
C30_OneAtATime ==
    /\ \A task_id \in DOMAIN tasks : Cardinality(Holding(task_id)) <= 1
    /\ assign_last.request # 0
       => <<assign_last.before, assign_last.event, assign_last.after>> \in TransitionTable

\* C30: transitions on a task of the shared map are per-key exclusive: one
\* request at a time holds the task, the task's states follow the transition
\* table, and of two concurrent requests carrying the same event, when the
\* event is accepted in the state the task had before them, exactly one
\* succeeds and the other gets InvalidStateTransition; when it is not accepted
\* both get InvalidStateTransition.
C30_PerKeyExclusive ==
    /\ C30_OneAtATime
    /\ \A a, b \in 1..MaxRequests :
          SameEventPair(a, b)
          => IF \E target \in TaskState :
                   <<ep_state, http_reqs[a].event, target>> \in TransitionTable
             THEN /\ Cardinality(Succeeded(a, b)) = 1
                  /\ Cardinality(Rejected(a, b)) = 1
             ELSE Rejected(a, b) = {a, b}

\* C30 as stated: of two concurrent requests carrying the same event exactly
\* one succeeds and the other gets InvalidStateTransition.
C30_ExactlyOneSucceeds ==
    \A a, b \in 1..MaxRequests :
       SameEventPair(a, b)
       => /\ Cardinality(Succeeded(a, b)) = 1
          /\ Cardinality(Rejected(a, b)) = 1

\* two concurrent StartExecution requests on a Contracted task: the second to
\* get the lock was rejected
C30_Witness ==
    /\ SameEventPair(1, 2)
    /\ http_reqs[1].event = "StartExecution"
    /\ ep_state = "Contracted"
    /\ http_reqs[2].response = "200 OK"
    /\ http_reqs[1].response = "400 Bad Request"
    /\ tasks[1].state = "InProgress"

-----------------------------------------------------------------------------
(* Claims about total_tasks, checked under SpecRepSeq *)

\* the sum of the five per-dimension observation counts
ObservationCount(rep) ==
    rep.dims["Completion"].observations + rep.dims["Quality"].observations
       + rep.dims["Reliability"].observations + rep.dims["Safety"].observations
       + rep.dims["Behavioral"].observations

\* the get_mut block of call c is the step being taken
AppliesObservation(c) == rep_pc[c] = "get_mut" /\ rep_pc'[c] = "latest_hash"

\* C31: after any sequence of update_reputation calls for an agent, total_tasks
\* equals the number of updates applied and the sum of the five per-dimension
\* observation counts, and the alpha of an update is adaptive_alpha of the
\* total_tasks before it, whatever the dimension and its own count.
C31_TotalTasksCounts ==
    /\ [](\A a \in DOMAIN scores :
             /\ scores[a].total_tasks
                   = Cardinality({c \in Applied : rep_obs[c].agent_id = a})
             /\ scores[a].total_tasks = ObservationCount(scores[a]))
    /\ [][\A c \in 1..MaxCalls :
             AppliesObservation(c)
             => LET a == rep_obs[c].agent_id
                    d == rep_obs[c].dimension
                IN /\ scores'[a].total_tasks = scores[a].total_tasks + 1
                   /\ scores'[a].dims[d].score
                         = clamp01(ema(adaptive_alpha(scores[a].total_tasks),
                                       clamp01(rep_obs[c].value),
                                       scores[a].dims[d].score))]_vars

\* two updates of one agent on two dimensions: the second, the first of its
\* dimension, was weighted with alpha(1) = 0.5
C31_Witness ==
    /\ Applied = {1, 2}
    /\ rep_obs[1].agent_id = rep_obs[2].agent_id
    /\ rep_obs[1].dimension = "Completion"
    /\ rep_obs[2].dimension = "Quality"
    /\ rep_obs[2].value = Scale \div 4
    /\ LET rep == scores[rep_obs[1].agent_id]
       IN /\ rep.total_tasks = 2
          /\ rep.dims["Quality"].observations = 1
          /\ rep.dims["Quality"].score = (3 * Scale) \div 8

-----------------------------------------------------------------------------
(* Claims about the HalfOpen probe, checked under SpecBreaker *)

\* C32: HalfOpen admits a single probe: a record_failure on a HalfOpen breaker,
\* whether it was tripped by its failure count or by check_reputation, moves it
\* back to Open, so that is_allowed() is false.
C32_HalfOpenSingleProbe ==
    (/\ cb_last.op = "record_failure"
     /\ cb_last.before # None
     /\ cb_last.before[1].state = "HalfOpen")
    => /\ cb_last.after[1].state = "Open"
       /\ ~is_allowed(cb_last.after[1])

CalledWhileOpen(op) ==
    /\ cb_last.op = op
    /\ cb_last.before # None
    /\ cb_last.before[1].state = "Open"

\* C35: while a breaker is Open, check_agent returns CircuitBreakerOpen at
\* every time earlier than last_failure_at + cooldown_secs; a record_failure or
\* a failing check_reputation while Open sets last_failure_at to the time of
\* the call; record_success while Open changes nothing; and a breaker leaves
\* Open only for HalfOpen, in check_agent's check_cooldown.
C35_OpenForCooldown ==
    /\ [](CalledWhileOpen("check_agent")
          => LET b == cb_last.before[1] IN
                /\ b.last_failure_at # None
                /\ cb_last.at < b.last_failure_at[1] + b.cooldown_secs
                   => /\ cb_last.result = "CircuitBreakerOpen"
                      /\ cb_last.after[1] = b)
    /\ [](CalledWhileOpen("record_failure")
          => /\ cb_last.after[1].state = "Open"
             /\ cb_last.after[1].last_failure_at = Some(cb_last.at))
    /\ [](CalledWhileOpen("record_success") => cb_last.after = cb_last.before)
    /\ [][\A a \in DOMAIN breakers :
             \A composite \in {NaN, 0, (3 * Scale) \div 10, Scale} :
                (breakers[a].state = "Open" /\ CheckReputation(a, composite))
                => /\ breakers'[a].state = "Open"
                   /\ breakers'[a].last_failure_at
                         = IF F64Lt(composite, breakers[a].reputation_threshold)
                           THEN Some(now)
                           ELSE breakers[a].last_failure_at]_vars
    /\ [][\A a \in DOMAIN breakers :
             (breakers[a].state = "Open" /\ breakers'[a].state # "Open")
             => /\ breakers'[a].state = "HalfOpen"
                /\ cb_last'.op = "check_agent"
                /\ CooldownElapsed(breakers[a], now)]_vars

\* a breaker tripped at time 0 whose cooldown of 2 was restarted at time 1 by a
\* further failure: check_agent still refuses the agent at time 2
C35_Witness ==
    /\ CalledWhileOpen("check_agent")
    /\ cb_last.before[1].cooldown_secs = 2
    /\ cb_last.before[1].last_failure_at = Some(1)
    /\ cb_last.before[1].failure_count > cb_last.before[1].threshold
    /\ cb_last.at = 2
    /\ cb_last.result = "CircuitBreakerOpen"
    /\ cb_last.after[1].state = "Open"

-----------------------------------------------------------------------------
(* The monitoring loop over a Ledger whose calls can return Err             *)

\* where the loop goes on when the append has failed and the error is logged
append_err_Breaks == "exited"

\* if let Err(e) = self.ledger.append(entry).await { tracing::error!(..) }:
\* handle_checkpoint returns and the loop selects again
append_err == "select"

\* self.ledger.latest_hash().await returns Err: unwrap_or(None)
MonLatestHashFails ==
    /\ mon_pc = "latest_hash"
    /\ w_prev' = [w_prev EXCEPT !["monitor"] = None]
    /\ w_pc' = [w_pc EXCEPT !["monitor"] = "hashed"]
    /\ mon_pc' = "append"
    /\ mon_last' = [op |-> "fault", call |-> "latest_hash", checkpoint |-> mon_cp[1]]
    /\ mon_log' = Append(mon_log, <<Handled, "latest_hash failed">>)
    /\ UNCHANGED <<now, otherVars, ledgerVars, sloVars, cp_chan, cp_sent, evt_chan,
                   evt_rx, shutdown, agent_heartbeats, mon_config, mon_cp, mon_queue,
                   hb_next, hb_last, hb_refreshed>>

\* self.ledger.append(entry).await returns Err: nothing is appended, the error
\* is logged, handle_checkpoint returns
MonAppendFails ==
    /\ mon_pc = "append"
    /\ mon_last' = [op |-> "fault", call |-> "append", checkpoint |-> mon_cp[1]]
    /\ mon_log' = Append(mon_log, <<Handled, "append failed">>)
    /\ next_id' = next_id + 1
    /\ w_prev' = [w_prev EXCEPT !["monitor"] = None]
    /\ w_pc' = [w_pc EXCEPT !["monitor"] = "idle"]
    /\ mon_cp' = None
    /\ mon_pc' = append_err
    /\ UNCHANGED <<now, otherVars, sloVars, ledger, cp_chan, cp_sent, evt_chan, evt_rx,
                   shutdown, agent_heartbeats, mon_config, mon_queue, hb_next, hb_last,
                   hb_refreshed>>

NextMonitorFaults ==
    \/ \E agent_id \in MonAgents, task_id \in TaskIds : SendCheckpoint(agent_id, task_id)
    \/ ReceiveEvent
    \/ DropEventReceiver
    \/ SignalShutdown
    \/ MonStep
    \/ MonLatestHashFails
    \/ MonAppendFails

SpecMonitorFaults == InitMonitor /\ [][NextMonitorFaults]_vars

-----------------------------------------------------------------------------
(* Claims about ledger errors in the loop, checked under SpecMonitorFaults *)

\* C33: ledger errors do not halt the monitoring loop: when latest_hash or
\* append fails while a checkpoint is handled, the CheckpointReceived event and
\* one SloViolation event per violated definition of that checkpoint have
\* already been sent, the loop goes on (to the append after a failed
\* latest_hash, to select! after a failed append), and there it takes the next
\* checkpoint and the next heartbeat tick; the loop exits on shutdown only.
C33_LedgerErrorsDoNotHalt ==
    /\ mon_last.op = "fault"
       => /\ <<Handled, "CheckpointReceived">> \in {mon_log[i] : i \in 1..Len(mon_log)}
          /\ ViolationsSent(Handled)
                = Cardinality(ViolatedAt(slo_defs, mon_last.checkpoint))
          /\ mon_pc # "exited"
             => /\ mon_pc = IF mon_last.call = "latest_hash" THEN "append" ELSE "select"
                /\ mon_last.call = "append"
                   => /\ cp_chan # <<>> => ENABLED MonRecv
                      /\ now >= hb_next => ENABLED MonTick
    /\ mon_pc = "exited" => shutdown.value

\* the append of the first checkpoint failed after its two violations were
\* sent; the second checkpoint was handled and recorded
C33_Witness ==
    /\ mon_log = << <<1, "insert">>, <<1, "CheckpointReceived">>, <<1, "SloViolation">>,
                    <<1, "SloViolation">>, <<1, "latest_hash failed">>,
                    <<1, "append failed">>, <<2, "insert">>,
                    <<2, "CheckpointReceived">>, <<2, "append">> >>
    /\ Len(ledger.entries) = 1
    /\ ledger.entries[1].actor_id = 2
    /\ hb_last.called

-----------------------------------------------------------------------------
(* Claims about a dispute's resolution, checked under SpecDispute *)

\* C36: under any sequence of apply_event and resolve calls, resolution is Some
\* only if state = Settled, and once set neither the resolution nor anything
\* else of the dispute changes: every later call, a second resolve included,
\* fails.
C36_ResolutionOnlySettled ==
    /\ [](dispute.resolution # None => dispute.state = "Settled")
    /\ [][dispute.resolution # None
          => /\ dispute' = dispute
             /\ dispute_last'.result = DisputeError]_vars

\* a dispute settled by the Settle event has no resolution
C36_SettledUnresolved ==
    /\ dispute_last.op = "apply_event"
    /\ dispute_last.arg = "Settle"
    /\ dispute_last.result.tag = "Ok"
    /\ dispute.state = "Settled"
    /\ dispute.resolution = None

\* a dispute resolved for the complainant refused a second resolve for the
\* respondent
C36_Witness ==
    /\ dispute_last.op = "resolve"
    /\ dispute_last.arg = <<"InFavorOfRespondent">>
    /\ dispute_last.before.state = "Settled"
    /\ dispute_last.before.resolution = Some(<<"InFavorOfComplainant">>)
    /\ dispute_last.result = DisputeError
    /\ dispute = dispute_last.before

-----------------------------------------------------------------------------
(* Claims about failed ledger writes of the engine, checked under SpecRepSeq *)

\* the ReputationUpdated entries the ledger holds for an agent
UpdatesOnLedger(a) ==
    {i \in 1..Len(ledger.entries) :
        ledger.entries[i].kind = "ReputationUpdated" /\ ledger.entries[i].actor_id = a}

\* C37: update_reputation commits the score before the ledger write and does
\* not roll back: when it has returned LedgerError no entry was appended for
\* the call, and the agent's total_tasks and the dimension's observation count
\* include the observation, as does the dimension's score until a later update;
\* the agent then has more updates in memory than entries on the ledger.
C37_NoRollback ==
    \A c \in 1..MaxCalls :
        (rep_pc[c] = "returned" /\ rep_result[c] = LedgerError)
        => LET a == rep_obs[c].agent_id
               d == rep_obs[c].dimension
           IN /\ rep_entry[c] = 0
              /\ a \in DOMAIN scores
              /\ scores[a].total_tasks
                    = Cardinality({k \in Applied : rep_obs[k].agent_id = a})
              /\ scores[a].dims[d].observations
                    = Cardinality({k \in Applied : /\ rep_obs[k].agent_id = a
                                                   /\ rep_obs[k].dimension = d})
              /\ (\A k \in Applied : k <= c)
                 => to_reputation_score(scores[a]) = rep_new[c]
              /\ Cardinality(UpdatesOnLedger(a)) < scores[a].total_tasks

\* the first update of an agent failed at the append: the observed 0.25 is the
\* agent's Completion score and the ledger is empty
C37_Witness ==
    /\ rep_pc[1] = "returned"
    /\ rep_fault[1] = "append"
    /\ rep_result[1] = LedgerError
    /\ rep_obs[1].dimension = "Completion"
    /\ rep_obs[1].value = Scale \div 4
    /\ scores[rep_obs[1].agent_id].total_tasks = 1
    /\ scores[rep_obs[1].agent_id].dims["Completion"].score = Scale \div 4
    /\ scores[rep_obs[1].agent_id].dims["Completion"].observations = 1
    /\ ledger.entries = <<>>

-----------------------------------------------------------------------------
(* Claims about unvalidated appends, checked under SpecAppend *)

\* C38: InMemoryLedger::append validates nothing and never fails: every append,
\* whatever the entry's previous_hash, adds the entry at the end and leaves the
\* stored entries as they were; and once verify_integrity() is false it is
\* false after every later append.
C38_AppendNeverRepairs ==
    [][ledger.impl = "InMemory"
       => /\ Len(ledger'.entries) = Len(ledger.entries) + 1
          /\ SubSeq(ledger'.entries, 1, Len(ledger.entries)) = ledger.entries
          /\ ~InMemoryLedger_verify_integrity(ledger)
             => ~InMemoryLedger_verify_integrity(ledger')]_vars

\* a second entry with previous_hash None was accepted; the third entry links
\* to it correctly and verify_integrity() is still false
C38_Witness ==
    /\ ledger.impl = "InMemory"
    /\ Len(ledger.entries) = 3
    /\ ledger.entries[1].previous_hash = None
    /\ ledger.entries[2].previous_hash = None
    /\ ledger.entries[3].previous_hash = Some(ledger.entries[2].hash)
    /\ ~InMemoryLedger_verify_integrity(ledger)

-----------------------------------------------------------------------------
(* Claims about terminal states of a task, checked under SpecTask *)

\* the events TaskState::transition accepts in a state
AcceptedIn(state) == {event \in TaskEvent : transition(state, event).tag = "Ok"}

\* the states from which accepted events lead into the set `targets`
RECURSIVE LeadsInto(_)
LeadsInto(targets) ==
    LET more == {state \in TaskState :
                    \E event \in AcceptedIn(state) :
                       transition(state, event).state \in targets}
    IN IF more \subseteq targets THEN targets ELSE LeadsInto(targets \cup more)

\* C40: Completed is the only task state in which no event is accepted, and
\* from every state a task reaches from Pending, Failed included, some sequence
\* of accepted events leads to Completed.
C40_OnlyCompletedIsTerminal ==
    /\ (AcceptedIn(task.state) = {}) = (task.state = "Completed")
    /\ task.state \in LeadsInto({"Completed"})

\* a task that failed in verification was retried and is Pending again, on its
\* way to Completed
C40_Witness ==
    /\ Called
    /\ task_last.event = "Retry"
    /\ task_last.before.state = "Failed"
    /\ task_last.result.tag = "Ok"
    /\ task.state = "Pending"
    /\ \E i \in 1..Len(task_events) : task_events[i] = "VerificationFailed"
    /\ "Failed" \in LeadsInto({"Completed"})

-----------------------------------------------------------------------------
(* The two loops while their channels are closed around them. A select! arm *)
(* whose future completes with a value its pattern refuses (None from a     *)
(* closed channel, Err from a watch channel without sender) is disabled for *)
(* that select!; when every arm is disabled and there is no else arm, the   *)
(* macro panics.                                                            *)

closeMonVars == <<now, taskVars, serverVars, ledgerVars, writerVars, fileVars, permVars,
                  repVars, evalVars, cbVars, disputeVars, sloVars, monVars, coordVars,
                  bidVars, decompVars, reqVars>>
closeCoVars == <<now, taskVars, serverVars, ledgerVars, writerVars, fileVars, permVars,
                 repVars, evalVars, cbVars, disputeVars, sloVars, monVars, coordVars,
                 bidVars, decompVars, reqVars>>

\* trigger_tx.send(trigger).await by a producer that still has its sender
SendTriggerOpen(trigger) == trig_tx = "open" /\ SendTrigger(trigger)

\* every trigger sender is dropped; what the channel holds can still be received
DropTriggerSenders ==
    /\ trig_tx = "open"
    /\ trig_tx' = "dropped"
    /\ UNCHANGED <<closeCoVars, cp_tx, mon_shutdown_tx, co_shutdown_tx>>

\* shutdown_tx.send(value) for the coordinator
CoSendShutdown(value) ==
    /\ co_shutdown_tx = "open"
    /\ ~co_shutdown.value
    /\ co_shutdown' = [value |-> value, changed |-> TRUE]
    /\ UNCHANGED <<coordOtherVars, trig_chan, trig_sent, plan_chan, plan_rx, co_pc,
                   co_plan, co_consumed, co_emitted, co_received>>

\* the coordinator's shutdown sender is dropped
CoDropShutdownSender ==
    /\ co_shutdown_tx = "open"
    /\ co_shutdown_tx' = "dropped"
    /\ UNCHANGED <<closeCoVars, cp_tx, mon_shutdown_tx, trig_tx>>

\* Coordinator::run, select!: recv() gives None and changed() gives Err, both
\* arms are disabled, and the select! has no else arm
CoAllDisabled ==
    /\ co_pc = "select"
    /\ trig_chan = <<>> /\ trig_tx = "dropped"
    /\ ~co_shutdown.changed /\ co_shutdown_tx = "dropped"
    /\ co_pc' = "panicked"
    /\ UNCHANGED <<coordOtherVars, trig_chan, trig_sent, plan_chan, plan_rx,
                   co_shutdown, co_plan, co_consumed, co_emitted, co_received>>

NextCoordinatorClose ==
    \/ \E trigger \in {t \in Triggers : t.trigger \in {"SecurityThreat", "BudgetExceeded"}} :
          SendTriggerOpen(trigger)
    \/ ReceivePlan
    \/ DropPlanReceiver
    \/ DropTriggerSenders
    \/ \E value \in BOOLEAN : CoSendShutdown(value)
    \/ CoDropShutdownSender
    \/ CoStep
    \/ CoAllDisabled

SpecCoordinatorClose == InitCoordinator /\ [][NextCoordinatorClose]_vars

\* cp_tx.send(checkpoint).await by an agent that still has its sender
SendCheckpointOpen(agent_id, task_id) ==
    cp_tx = "open" /\ SendCheckpoint(agent_id, task_id)

\* every checkpoint sender is dropped
DropCheckpointSenders ==
    /\ cp_tx = "open"
    /\ cp_tx' = "dropped"
    /\ UNCHANGED <<closeMonVars, mon_shutdown_tx, trig_tx, co_shutdown_tx>>

\* shutdown_tx.send(value) for the monitoring loop
MonSendShutdown(value) ==
    /\ mon_shutdown_tx = "open"
    /\ ~shutdown.value
    /\ shutdown' = [value |-> value, changed |-> TRUE]
    /\ UNCHANGED <<now, otherVars, ledgerVars, writerVars, sloVars, cp_chan, cp_sent,
                   evt_chan, evt_rx, agent_heartbeats, mon_config, mon_pc, mon_cp,
                   mon_queue, hb_next, mon_log, mon_last, hb_last, hb_refreshed>>

\* the monitoring loop's shutdown sender is dropped
MonDropShutdownSender ==
    /\ mon_shutdown_tx = "open"
    /\ mon_shutdown_tx' = "dropped"
    /\ UNCHANGED <<closeMonVars, cp_tx, trig_tx, co_shutdown_tx>>

\* MonitoringLoop::run: the arm `_ = heartbeat_interval.tick()` accepts every
\* value, so its select! always has an enabled arm
NextMonitorClose ==
    \/ \E agent_id \in MonAgents, task_id \in TaskIds :
          SendCheckpointOpen(agent_id, task_id)
    \/ ReceiveEvent
    \/ DropEventReceiver
    \/ DropCheckpointSenders
    \/ \E value \in BOOLEAN : MonSendShutdown(value)
    \/ MonDropShutdownSender
    \/ MonStep

SpecMonitorClose == InitMonitor /\ [][NextMonitorClose]_vars

-----------------------------------------------------------------------------
(* Claims about how the loops end, checked under SpecCoordinatorClose and   *)
(* SpecMonitorClose                                                         *)

\* MonitoringLoop::run has ended only by seeing shutdown = true
MonitorEndsOnlyByShutdown ==
    mon_pc \notin {"select", "send_received", "send_violation", "send_unresponsive",
                   "latest_hash", "append"}
    => mon_pc = "exited" /\ shutdown.value

\* Coordinator::run has ended only by seeing shutdown = true
CoordinatorEndsOnlyByShutdown ==
    co_pc \notin {"select", "send"} => co_pc = "exited" /\ co_shutdown.value

\* C39: MonitoringLoop::run and Coordinator::run end only by observing
\* shutdown = true: closing the input channel, closing the output channel, a
\* shutdown value of false and dropping the shutdown sender, in any
\* combination, neither end the loop nor make it panic.
C39_EndOnlyByShutdown == MonitorEndsOnlyByShutdown /\ CoordinatorEndsOnlyByShutdown

====
